---------------------------- MODULE Spec2Model ----------------------------
(***************************************************************************)
(* PhysicsCoin: the state engine (src/src/core/state.c), transaction       *)
(* authentication (src/src/crypto/crypto.c), state serialization           *)
(* (src/src/utils/serialize.c) and the write-ahead log                     *)
(* (src/src/persistence/wal.c), as state machines.                         *)
(*                                                                         *)
(* Balances are C doubles.  They are modelled as a binary floating-point   *)
(* format with MantBits bits of significand and round-to-nearest-even      *)
(* (binary64 has 53 bits); every modelled value is a whole number of       *)
(* coins, so a model value n stands for the double n.0.                    *)
(***************************************************************************)
EXTENDS Integers, Sequences, FiniteSets, TLC

(***************************************************************************)
(* Bounds of the model                                                     *)
(***************************************************************************)
\* Nonces submitted and reached are 0..MaxNonce.
MaxNonce == 2
\* Bits of significand of the modelled floating-point format.
MantBits == 3
\* time(NULL) takes the values 0..MaxTime.
MaxTime == 1
\* Ancestors whose contents a modelled state hash keeps (see CutHash).
HashDepth == 1
\* Entries appended over the whole life of a write-ahead log.
MaxEntries == 6
\* The same where every operation of the log and failing syncs are explored.
MaxWalEntries == 3
\* Transactions with a bad signature that the daemon's peer sends.
MaxBadTx == 1
\* Round advances at one height.
MaxRound == 1
\* Proposals made by all the validators together.
MaxProposals == 2
\* Votes delivered to each of the replicas that hold the same proposal.
MaxDeliveries == 2
\* The last second at which locks are taken and transfers run.
MaxClock == 600
\* The violations of one peer slot after which its messages are left out.
MaxPeerViolations == 6
\* The last second at which the daemon reads messages.
MaxPeerClock == 60
\* The messages of one connection in a state synchronisation.
MaxSyncMessages == 3
\* The height up to which the validators of the network propose.
MaxHeight == 1
\* The times one validator is slashed.
MaxSlashes == 4

(***************************************************************************)
(* Program constants                                                       *)
(***************************************************************************)
PHYSICSCOIN_MAX_WALLETS == 10000
\* wallets_capacity set by pc_state_init
INITIAL_WALLETS_CAPACITY == 100
\* number of wallets the stress test registers (the founder included)
NUM_WALLETS == 100

PC_OK == "PC_OK"
PC_ERR_INSUFFICIENT_FUNDS == "PC_ERR_INSUFFICIENT_FUNDS"
PC_ERR_INVALID_SIGNATURE == "PC_ERR_INVALID_SIGNATURE"
PC_ERR_WALLET_NOT_FOUND == "PC_ERR_WALLET_NOT_FOUND"
PC_ERR_WALLET_EXISTS == "PC_ERR_WALLET_EXISTS"
PC_ERR_MAX_WALLETS == "PC_ERR_MAX_WALLETS"
PC_ERR_INVALID_AMOUNT == "PC_ERR_INVALID_AMOUNT"
PC_ERR_CONSERVATION_VIOLATED == "PC_ERR_CONSERVATION_VIOLATED"
PC_ERR_IO == "PC_ERR_IO"

(***************************************************************************)
(* Input sets                                                              *)
(***************************************************************************)
\* Public keys (32-byte arrays in the source)
Keys == {1, 2, 3}
\* key_store of crypto.c: the keys pc_keypair_generate produced in this
\* process.  Key 3 is an address without a generated keypair.
KeyStore == {1, 2}
\* The keys the stress test's loop registers besides the modelled ones.
FillerKeys == 4..(NUM_WALLETS + 2)
\* Whole-coin amounts; 0 is the invalid amount.
Amounts == {0, 1}
\* Genesis supplies: 0 is refused, 3 is exactly representable with room to
\* spare, 2^(MantBits+1) is where the spacing of doubles exceeds one coin
\* (2^54 for binary64), 2^MantBits + 2 is the first double above 2^MantBits
\* whose predecessor by one coin is a tie (2^53 + 2 for binary64).
Pow2(n) == 2 ^ n
Supplies == {0, 3, Pow2(MantBits) + 2, Pow2(MantBits + 1)}
InitialBalances == {0, 1}
\* The founder's key
Founder == 1

(***************************************************************************)
(* IEEE-754 arithmetic, round to nearest, ties to even                     *)
(***************************************************************************)
RECURSIVE Ulp(_)
\* Spacing of the representable values around the magnitude m >= 0.
Ulp(m) == IF m < Pow2(MantBits) THEN 1 ELSE 2 * Ulp(m \div 2)

\* The multiple of the spacing u nearest to the magnitude m; of two equally
\* near ones, the even multiple.
NearestMultiple(m, u) ==
    IF 2 * (m % u) < u THEN (m \div u) * u
    ELSE IF 2 * (m % u) > u THEN (m \div u + 1) * u
    ELSE IF (m \div u) % 2 = 0 THEN (m \div u) * u
    ELSE (m \div u + 1) * u

\* The representable value nearest to the real number x.
RoundNearestEven(x) ==
    IF x < 0 THEN -NearestMultiple(-x, Ulp(-x)) ELSE NearestMultiple(x, Ulp(x))

\* double + double and double - double
FAdd(a, b) == RoundNearestEven(a + b)
FSub(a, b) == RoundNearestEven(a - b)

\* fabs(d) > 1e-12 and fabs(d) > 1e-9 on values that are whole coins
ExceedsTolerance(d) == d # 0

(***************************************************************************)
(* crypto.c: signatures                                                    *)
(***************************************************************************)
ZeroSignature == <<>>

\* create_msg_hash: SHA-256 of from, to, amount, nonce, timestamp
\* (SHA-256 is modelled as injective: the hash is its preimage).
create_msg_hash(tx) == <<tx.from, tx.to, tx.amount, tx.nonce, tx.timestamp>>

\* An ECDSA signature made with kp's secret key over a message hash.
Ecdsa(kp, msg_hash) == <<kp, msg_hash>>

\* pc_transaction_sign: refuses when the signer is not tx.from.
pc_transaction_sign(tx, kp) ==
    IF tx.from # kp THEN tx
    ELSE [tx EXCEPT !.signature = Ecdsa(kp, create_msg_hash(tx))]

\* pc_transaction_verify
pc_transaction_verify(tx) ==
    IF tx.signature = ZeroSignature THEN PC_ERR_INVALID_SIGNATURE
    ELSE IF tx.from \notin KeyStore THEN PC_ERR_INVALID_SIGNATURE
    ELSE IF tx.signature # Ecdsa(tx.from, create_msg_hash(tx))
         THEN PC_ERR_INVALID_SIGNATURE
    ELSE PC_OK

(***************************************************************************)
(* state.c: the state engine as functions on a PCState record              *)
(***************************************************************************)
ZeroHash == <<>>

\* A SHA-256 value is modelled by its preimage.  A state hash commits to the
\* previous state hash, which commits to the one before it, and so on: the
\* model keeps the contents of HashDepth ancestors and cuts the chain there.
\* Two model hashes that differ stand for preimages that differ.
CutMark == <<0>>

RECURSIVE CutHash(_, _)
CutHash(h, d) ==
    IF h = ZeroHash \/ h = CutMark THEN h
    ELSE IF d = 0 THEN CutMark
    ELSE <<h[1], h[2], h[3], h[4], CutHash(h[5], d - 1), h[6]>>

\* The bytes pc_state_compute_hash feeds to SHA-256.
HashInput(st) ==
    <<st.version, st.timestamp, Len(st.wallets), st.total_supply,
      CutHash(st.prev_hash, HashDepth), st.wallets>>

\* pc_state_compute_hash: SHA-256 over version, timestamp, num_wallets,
\* total_supply, prev_hash and every wallet in insertion order.
pc_state_compute_hash(st) == [st EXCEPT !.state_hash = HashInput(st)]

\* pc_state_init
pc_state_init(now) ==
    [version |-> 1, timestamp |-> now, wallets |-> <<>>, total_supply |-> 0,
     wallets_capacity |-> INITIAL_WALLETS_CAPACITY,
     state_hash |-> ZeroHash, prev_hash |-> ZeroHash]

\* pc_state_get_wallet: the index of the first wallet with that key, 0 for NULL
pc_state_get_wallet(st, pubkey) ==
    LET First(found) == IF found = {} THEN 0
                        ELSE CHOOSE i \in found : \A j \in found : i <= j
    IN  First({i \in 1..Len(st.wallets) : st.wallets[i].public_key = pubkey})

\* pc_state_create_wallet
pc_state_create_wallet(st, pubkey, initial_balance) ==
    LET full    == Len(st.wallets) >= st.wallets_capacity
        new_cap == IF st.wallets_capacity = 0 THEN 8 ELSE st.wallets_capacity * 2
        w       == [public_key |-> pubkey, energy |-> initial_balance, nonce |-> 0]
    IN  IF pc_state_get_wallet(st, pubkey) # 0
        THEN [st |-> st, err |-> PC_ERR_WALLET_EXISTS]
        ELSE IF full /\ new_cap > PHYSICSCOIN_MAX_WALLETS
        THEN [st |-> st, err |-> PC_ERR_MAX_WALLETS]
        ELSE [st |-> [st EXCEPT
                        !.wallets = Append(@, w),
                        !.wallets_capacity = IF full THEN new_cap ELSE @,
                        !.total_supply = IF initial_balance > 0
                                         THEN FAdd(@, initial_balance) ELSE @],
              err |-> PC_OK]

\* pc_state_genesis
pc_state_genesis(st, founder_pubkey, initial_supply, now) ==
    LET Founded(c) ==
            IF c.err # PC_OK THEN c
            ELSE [st |-> pc_state_compute_hash(
                            [c.st EXCEPT !.total_supply = initial_supply]),
                  err |-> PC_OK]
    IN  IF initial_supply <= 0 THEN [st |-> st, err |-> PC_ERR_INVALID_AMOUNT]
        ELSE Founded(pc_state_create_wallet(pc_state_init(now), founder_pubkey,
                                            initial_supply))

\* The outcomes of the realloc in pc_state_create_wallet that matter to a
\* caller holding a pointer into the old array: FALSE is growth in place,
\* TRUE is a moved block (the old block is freed).
ReallocMoves(st) == IF Len(st.wallets) >= st.wallets_capacity
                    THEN BOOLEAN ELSE {FALSE}

\* Lines 134-149 of pc_state_execute_tx on the sender's and the receiver's
\* wallet, the two being different objects: the transfer, the pair check and
\* its reversal.  Returns the two energies, the sender's nonce and the error.
TransferPair(fe, te, fnonce, amount) ==
    LET Verify(before_sum, fe1, te1, after_sum) ==
            IF ExceedsTolerance(before_sum - after_sum)
            THEN [fe |-> FAdd(fe1, amount), te |-> FSub(te1, amount),
                  fnonce |-> fnonce, err |-> PC_ERR_CONSERVATION_VIOLATED]
            ELSE [fe |-> fe1, te |-> te1, fnonce |-> fnonce + 1, err |-> PC_OK]
        Moved(before_sum, fe1, te1) ==
            Verify(before_sum, fe1, te1, FAdd(fe1, te1))
    IN  Moved(FAdd(fe, te), FSub(fe, amount), FAdd(te, amount))

\* The same lines when from and to point at the same wallet (self-transfer).
TransferSelf(e, fnonce, amount) ==
    LET Verify(before_sum, e1, after_sum) ==
            IF ExceedsTolerance(before_sum - after_sum)
            THEN [fe |-> FSub(FAdd(e1, amount), amount), te |-> 0,
                  fnonce |-> fnonce, err |-> PC_ERR_CONSERVATION_VIOLATED]
            ELSE [fe |-> e1, te |-> 0, fnonce |-> fnonce + 1, err |-> PC_OK]
        Moved(before_sum, e1) == Verify(before_sum, e1, FAdd(e1, e1))
    IN  Moved(FAdd(e, e), FAdd(FSub(e, amount), amount))

\* Lines 151-154 of pc_state_execute_tx.
UpdateStateNoPrevHash(st, now) ==
    pc_state_compute_hash([st EXCEPT !.timestamp = now])

UpdateState(st, now) ==
    pc_state_compute_hash([st EXCEPT !.timestamp = now,
                                     !.prev_hash = st.state_hash])

\* pc_state_execute_tx.  `moved` is the outcome of the realloc, if the
\* receiver's creation grows the array: the pointer `from`, taken before the
\* creation, then points into the freed block, which still reads as it was
\* and whose writes are lost.
pc_state_execute_tx(st, tx, now, moved) ==
    LET \* lines 151-156, or the return of line 148
        Return(s2, r) ==
            IF r.err # PC_OK THEN [st |-> s2, err |-> r.err]
            ELSE [st |-> UpdateState(s2, now), err |-> PC_OK]
        \* the writes of lines 137-147; those through a dangling `from` are lost
        Store(s1, fi, ti, dangling, r) ==
            Return([s1 EXCEPT !.wallets =
                      IF fi = ti
                      THEN [@ EXCEPT ![fi].energy = r.fe, ![fi].nonce = r.fnonce]
                      ELSE IF dangling
                      THEN [@ EXCEPT ![ti].energy = r.te]
                      ELSE [@ EXCEPT ![fi].energy = r.fe, ![fi].nonce = r.fnonce,
                                     ![ti].energy = r.te]],
                   r)
        \* lines 120-149: `from` is read where it pointed before the creation
        Checked(s1, fi, ti, dangling, from) ==
            IF tx.nonce # from.nonce
            THEN [st |-> s1, err |-> PC_ERR_INVALID_SIGNATURE]
            ELSE IF from.energy < tx.amount
            THEN [st |-> s1, err |-> PC_ERR_INSUFFICIENT_FUNDS]
            ELSE IF tx.amount <= 0
            THEN [st |-> s1, err |-> PC_ERR_INVALID_AMOUNT]
            ELSE Store(s1, fi, ti, dangling,
                       IF fi = ti
                       THEN TransferSelf(from.energy, from.nonce, tx.amount)
                       ELSE TransferPair(from.energy, s1.wallets[ti].energy,
                                         from.nonce, tx.amount))
        \* lines 113-118
        Created(fi, cr) ==
            IF cr.err # PC_OK THEN [st |-> st, err |-> cr.err]
            ELSE Checked(cr.st, fi, pc_state_get_wallet(cr.st, tx.to),
                         cr.st.wallets_capacity # st.wallets_capacity /\ moved,
                         st.wallets[fi])
        \* lines 107-111
        Found(fi, ti0) ==
            IF fi = 0 THEN [st |-> st, err |-> PC_ERR_WALLET_NOT_FOUND]
            ELSE Created(fi, IF ti0 = 0 THEN pc_state_create_wallet(st, tx.to, 0)
                             ELSE [st |-> st, err |-> PC_OK])
        \* lines 103-105
        Verified(err) ==
            IF err # PC_OK THEN [st |-> st, err |-> err]
            ELSE Found(pc_state_get_wallet(st, tx.from),
                       pc_state_get_wallet(st, tx.to))
    IN  Verified(pc_transaction_verify(tx))

\* pc_state_verify_conservation: the sum is accumulated in a double.
RECURSIVE actual_sum(_)
actual_sum(ws) ==
    IF ws = <<>> THEN 0
    ELSE FAdd(actual_sum(SubSeq(ws, 1, Len(ws) - 1)), ws[Len(ws)].energy)

pc_state_verify_conservation(st) ==
    IF ExceedsTolerance(actual_sum(st.wallets) - st.total_supply)
    THEN PC_ERR_CONSERVATION_VIOLATED ELSE PC_OK

(***************************************************************************)
(* serialize.c: the checkpoint image of a PCState                          *)
(***************************************************************************)
\* No checkpoint file on disk.
NoFile == <<>>

\* pc_state_serialize: the header fields, then the wallets.
pc_state_serialize(st) ==
    [state_version |-> st.version, timestamp |-> st.timestamp,
     num_wallets |-> Len(st.wallets), total_supply |-> st.total_supply,
     state_hash |-> st.state_hash, prev_hash |-> st.prev_hash,
     wallets |-> st.wallets]

\* pc_state_deserialize: the capacity is not stored, it is rebuilt.
pc_state_deserialize(st, buffer) ==
    [version |-> buffer.state_version, timestamp |-> buffer.timestamp,
     wallets |-> SubSeq(buffer.wallets, 1, buffer.num_wallets),
     total_supply |-> buffer.total_supply,
     wallets_capacity |-> buffer.num_wallets + 100,
     state_hash |-> buffer.state_hash, prev_hash |-> buffer.prev_hash]

(***************************************************************************)
(* wal.c: the write-ahead log as functions                                 *)
(***************************************************************************)
WAL_ENTRY_TX == "WAL_ENTRY_TX"
WAL_ENTRY_CHECKPOINT == "WAL_ENTRY_CHECKPOINT"
WAL_ENTRY_GENESIS == "WAL_ENTRY_GENESIS"
WAL_ENTRY_SYNC_MARKER == "WAL_ENTRY_SYNC_MARKER"

\* A WALHeader that does not read back (no file, or a header that never
\* reached the disk), and the header pc_wal_init writes to a new file.
NoHeader == [magic |-> FALSE, entry_count |-> 0, state_hash |-> ZeroHash]
NewHeader == [magic |-> TRUE, entry_count |-> 0, state_hash |-> ZeroHash]

\* A PCWAL after memset: no file open.
ZeroWal ==
    [file |-> FALSE, header |-> NoHeader, current_sequence |-> 0,
     dirty |-> FALSE, sync_on_write |-> FALSE]

\* compute_checksum and verify_checksum: SHA-256 of the payload.
compute_checksum(data) == <<"sha256", data>>
verify_checksum(data, expected) == compute_checksum(data) = expected

\* wal_sync: fflush and fsync.  `file` is the file as written so far, `st`
\* what of it stable storage holds; ok is whether both calls succeeded.
\* Returns what stable storage holds afterwards.
wal_sync(file, st, ok) ==
    IF ok THEN [header |-> file.header, entries |-> Len(file.entries)]
    ELSE st

\* The four append functions share their first half: the entry takes the
\* current sequence number, which is then incremented, and is written at
\* the end of the file.
WriteEntry(w, file, type, payload, checksum) ==
    [wal  |-> [w EXCEPT !.current_sequence = @ + 1],
     file |-> [file EXCEPT !.entries = Append(@,
                 [type |-> type, sequence |-> w.current_sequence,
                  payload |-> payload, checksum |-> checksum])]]

\* pc_wal_log_tx: the result of wal_sync is only printed.
pc_wal_log_tx(w, file, st, tx, syncOK) ==
    IF ~w.file THEN [wal |-> w, file |-> file, stable |-> st, err |-> PC_ERR_IO]
    ELSE LET a == WriteEntry(w, file, WAL_ENTRY_TX, tx, compute_checksum(tx))
         IN  [wal    |-> [a.wal EXCEPT !.header.entry_count = a.wal.current_sequence,
                                       !.dirty = TRUE],
              file   |-> a.file,
              stable |-> IF w.sync_on_write THEN wal_sync(a.file, st, syncOK)
                         ELSE st,
              err    |-> PC_OK]

\* pc_wal_log_genesis: the result of wal_sync is dropped.
pc_wal_log_genesis(w, file, st, creator_pubkey, supply, syncOK) ==
    IF ~w.file THEN [wal |-> w, file |-> file, stable |-> st, err |-> PC_ERR_IO]
    ELSE LET payload == [pubkey |-> creator_pubkey, supply |-> supply]
             a == WriteEntry(w, file, WAL_ENTRY_GENESIS, payload,
                             compute_checksum(payload))
         IN  [wal    |-> [a.wal EXCEPT !.header.entry_count = a.wal.current_sequence,
                                       !.dirty = TRUE],
              file   |-> a.file,
              stable |-> IF w.sync_on_write THEN wal_sync(a.file, st, syncOK)
                         ELSE st,
              err    |-> PC_OK]

\* pc_wal_checkpoint, the part on the WAL: the entry (its checksum field is
\* the state hash), a sync, the header rewritten in place, a sync.
pc_wal_checkpoint(w, file, st, state_hash, syncOK) ==
    IF ~w.file THEN [wal |-> w, file |-> file, stable |-> st, err |-> PC_ERR_IO]
    ELSE LET a  == WriteEntry(w, file, WAL_ENTRY_CHECKPOINT, state_hash, state_hash)
             w1 == [a.wal EXCEPT !.header.state_hash = state_hash,
                                 !.header.entry_count = a.wal.current_sequence]
             f1 == [a.file EXCEPT !.header = w1.header]
         IN  [wal    |-> w1,
              file   |-> f1,
              stable |-> wal_sync(f1, wal_sync(a.file, st, syncOK), syncOK),
              err    |-> PC_OK]

\* pc_wal_sync_marker: the payload is the time of the call; dirty is left
\* as it was.
pc_wal_sync_marker(w, file, st, sync_time, syncOK) ==
    IF ~w.file THEN [wal |-> w, file |-> file, stable |-> st, err |-> PC_ERR_IO]
    ELSE LET a == WriteEntry(w, file, WAL_ENTRY_SYNC_MARKER, sync_time,
                             compute_checksum(sync_time))
         IN  [wal    |-> [a.wal EXCEPT !.header.entry_count = a.wal.current_sequence],
              file   |-> a.file,
              stable |-> wal_sync(a.file, st, syncOK),
              err    |-> PC_OK]

\* pc_wal_init: an existing file with a header that reads back is opened and
\* the sequence counter is taken from the header; otherwise the file is
\* created (emptied) and a new header written.
pc_wal_init(file, st, syncOK) ==
    LET opened == [file |-> TRUE, header |-> file.header,
                   current_sequence |-> file.header.entry_count,
                   dirty |-> FALSE, sync_on_write |-> TRUE]
        f1 == [header |-> NewHeader, entries |-> <<>>]
        created == [file |-> TRUE, header |-> NewHeader, current_sequence |-> 0,
                    dirty |-> FALSE, sync_on_write |-> TRUE]
    IN  IF file.header.magic
        THEN [wal |-> opened, file |-> file, stable |-> st, err |-> PC_OK]
        ELSE [wal |-> created, file |-> f1,
              stable |-> wal_sync(f1, [st EXCEPT !.entries = 0], syncOK),
              err |-> PC_OK]

\* pc_wal_truncate: the file is reopened empty, the counter restarts.
pc_wal_truncate(w, file, st, syncOK) ==
    IF ~w.file THEN [wal |-> w, file |-> file, stable |-> st, err |-> PC_ERR_IO]
    ELSE LET w1 == [w EXCEPT !.header.entry_count = 0, !.current_sequence = 0]
             f1 == [header |-> w1.header, entries |-> <<>>]
         IN  [wal |-> w1, file |-> f1,
              stable |-> wal_sync(f1, [st EXCEPT !.entries = 0], syncOK),
              err |-> PC_OK]

\* pc_wal_set_sync_mode
pc_wal_set_sync_mode(w, sync_on_write) == [w EXCEPT !.sync_on_write = sync_on_write]

\* pc_wal_close: the header is rewritten only if dirty.
pc_wal_close(w, file, st, syncOK) ==
    IF ~w.file THEN [wal |-> w, file |-> file, stable |-> st]
    ELSE LET f1 == IF w.dirty THEN [file EXCEPT !.header = w.header] ELSE file
         IN  [wal |-> [w EXCEPT !.file = FALSE], file |-> f1,
              stable |-> wal_sync(f1, st, syncOK)]

\* The test of pc_wal_recover that skips a transaction entry.
BeforeCheckpointOffByOne(entry, checkpoint_seq) ==
    entry.sequence <= checkpoint_seq + 1

BeforeCheckpoint(entry, checkpoint_seq) ==
    entry.sequence <= checkpoint_seq

\* One pass of the replay loop of pc_wal_recover on the entry read.
ReplayEntry(acc, entry, now) ==
    IF entry.type = WAL_ENTRY_GENESIS
    THEN IF ~verify_checksum(entry.payload, entry.checksum) THEN acc
         ELSE [acc EXCEPT !.st = pc_state_genesis(acc.st, entry.payload.pubkey,
                                                  entry.payload.supply, now).st]
    ELSE IF entry.type = WAL_ENTRY_TX
    THEN IF ~verify_checksum(entry.payload, entry.checksum) THEN acc
         ELSE IF BeforeCheckpoint(entry, acc.checkpoint_seq) THEN acc
         ELSE [acc EXCEPT !.st = pc_state_execute_tx(acc.st, entry.payload,
                                                     now, FALSE).st]
    ELSE IF entry.type = WAL_ENTRY_CHECKPOINT
    THEN [acc EXCEPT !.checkpoint_seq = entry.sequence]
    ELSE acc

\* The replay loop with a break where the code has a continue: it ends at
\* the first entry whose checksum does not match.
RECURSIVE ReplayHalting(_, _, _)
ReplayHalting(entries, acc, now) ==
    IF entries = <<>> THEN acc
    ELSE IF /\ Head(entries).type \in {WAL_ENTRY_GENESIS, WAL_ENTRY_TX}
            /\ ~verify_checksum(Head(entries).payload, Head(entries).checksum)
         THEN acc
         ELSE ReplayHalting(Tail(entries),
                            ReplayEntry(acc, Head(entries), now), now)

RECURSIVE Replay(_, _, _)
Replay(entries, acc, now) ==
    IF entries = <<>> THEN acc
    ELSE Replay(Tail(entries), ReplayEntry(acc, Head(entries), now), now)

\* pc_wal_recover: the checkpoint image, if there is one, is loaded into the
\* state; then every entry of the file is replayed.
pc_wal_recover(w, file, cp, st, now) ==
    IF ~w.file THEN [st |-> st, err |-> PC_ERR_IO]
    ELSE LET Replayed(r) ==
                 [st |-> r.st, err |-> pc_state_verify_conservation(r.st)]
             Loaded(loaded) ==
                 Replayed(Replay(file.entries,
                                 [st |-> loaded, checkpoint_seq |-> 0], now))
         IN  Loaded(IF cp # NoFile THEN pc_state_deserialize(st, cp) ELSE st)

(***************************************************************************)
(* poc_consensus.c: Proof-of-Conservation consensus as functions on a      *)
(* POCConsensus record                                                     *)
(***************************************************************************)
POC_MAX_VALIDATORS == 100
POC_QUORUM_PERCENT == 67

\* The Ed25519 keypairs of the validators, and of a node that is none.
ValidatorKeys == {1, 2, 3, 4}
\* A network of four validators: three follow the protocol, the fourth is
\* Byzantine.
Honest == {1, 2, 3}
Byzantine == 4
Outsider == 5

\* crypto_sign_detached with the secret key of keypair kp, and
\* crypto_sign_verify_detached against a public key.
Ed25519(kp, msg) == <<kp, msg>>
Ed25519Verify(sig, msg, pubkey) == sig = Ed25519(pubkey, msg)

\* A double that arrives in a message: any bit pattern, a NaN included.
Double(x) == [nan |-> FALSE, value |-> x]
NaN == [nan |-> TRUE, value |-> 0]
\* a - b; NaN when either operand is
DSub(a, b) == IF a.nan \/ b.nan THEN NaN ELSE Double(FSub(a.value, b.value))
\* fabs(d) > 1e-12; every ordered comparison with a NaN is false
FabsExceeds(d) == ~d.nan /\ ExceedsTolerance(d.value)

POC_PHASE_IDLE == "IDLE"
POC_PHASE_PRE_PREPARE == "PRE_PREPARE"
POC_PHASE_PREPARE == "PREPARE"
POC_PHASE_COMMIT == "COMMIT"
POC_PHASE_FINALIZED == "FINALIZED"

POC_VOTE_APPROVE == "APPROVE"
POC_VOTE_REJECT == "REJECT"
POC_VOTE_ABSTAIN == "ABSTAIN"

\* A POCProposal of zeroed memory.
ZeroProposal ==
    [sequence_num |-> 0, round |-> 0, prev_state_hash |-> ZeroHash,
     new_state_hash |-> ZeroHash, total_supply |-> Double(0),
     delta_sum |-> Double(0), timestamp |-> 0, proposer_pubkey |-> 0,
     proposer_sig |-> ZeroSignature, num_transactions |-> 0]

\* A POCConsensus of zeroed memory.  votes holds votes[0..num_votes-1].
ZeroPoc ==
    [validators |-> <<>>, current_height |-> 0, current_round |-> 0,
     phase |-> POC_PHASE_IDLE, current_proposal |-> ZeroProposal,
     has_proposal |-> FALSE, votes |-> <<>>, leader_index |-> 0,
     round_start_time |-> 0, last_finalized_time |-> 0,
     local_pubkey |-> 0, local_secret |-> 0, is_validator |-> FALSE,
     pending_locks |-> <<>>]

poc_init(now) ==
    [ZeroPoc EXCEPT !.round_start_time = now, !.last_finalized_time = now]

\* poc_save: the file holds the magic number and the image of the struct.
poc_save(c) == <<c>>

\* The index in validators[] of pubkey, 0 when it is not registered.
ValidatorIndex(c, pubkey) ==
    LET First(found) == IF found = {} THEN 0
                        ELSE CHOOSE i \in found : \A j \in found : i <= j
    IN  First({i \in 1..Len(c.validators) : c.validators[i].pubkey = pubkey})

poc_add_validator(c, pubkey, now) ==
    IF Len(c.validators) >= POC_MAX_VALIDATORS
    THEN [c |-> c, err |-> PC_ERR_MAX_WALLETS]
    ELSE IF ValidatorIndex(c, pubkey) # 0
    THEN [c |-> c, err |-> PC_ERR_WALLET_EXISTS]
    ELSE [c |-> [c EXCEPT !.validators = Append(@,
                    [pubkey |-> pubkey, joined_at |-> now, last_seen |-> now,
                     proposals |-> 0, validations |-> 0, reputation |-> 1,
                     active |-> TRUE])],
          err |-> PC_OK]

poc_remove_validator(c, pubkey) ==
    LET Deactivate(i) ==
            IF i = 0 THEN [c |-> c, err |-> PC_ERR_WALLET_NOT_FOUND]
            ELSE [c |-> [c EXCEPT !.validators[i].active = FALSE],
                  err |-> PC_OK]
    IN  Deactivate(ValidatorIndex(c, pubkey))

poc_is_validator(c, pubkey) ==
    \E i \in 1..Len(c.validators) :
        c.validators[i].active /\ c.validators[i].pubkey = pubkey

poc_set_local_validator(c, pubkey, secret) ==
    [c EXCEPT !.local_pubkey = pubkey, !.local_secret = secret,
              !.is_validator = poc_is_validator(c, pubkey)]

\* The indices of the active validators, in registry order.
ActiveIndices(c) ==
    SelectSeq([i \in 1..Len(c.validators) |-> i],
              LAMBDA i : c.validators[i].active)

poc_active_validator_count(c) == Len(ActiveIndices(c))

\* poc_get_current_leader: the index in validators[] of the leader, 0 for NULL.
poc_get_current_leader(c) ==
    LET Pick(active) == IF Len(active) = 0 THEN 0
                        ELSE active[(c.leader_index % Len(active)) + 1]
    IN  Pick(ActiveIndices(c))

\* SHA-256 of the proposal's fields but the signature.
poc_hash_proposal(p) ==
    <<p.sequence_num, p.round, p.prev_state_hash, p.new_state_hash,
      p.total_supply, p.delta_sum, p.timestamp, p.proposer_pubkey,
      p.num_transactions>>

\* verify_conservation(before, after)
verify_conservation(before, after) ==
    IF ExceedsTolerance(FSub(before.total_supply, after.total_supply))
    THEN PC_ERR_CONSERVATION_VIOLATED
    ELSE IF ExceedsTolerance(FSub(actual_sum(before.wallets), before.total_supply))
    THEN PC_ERR_CONSERVATION_VIOLATED
    ELSE IF ExceedsTolerance(FSub(actual_sum(after.wallets), after.total_supply))
    THEN PC_ERR_CONSERVATION_VIOLATED
    ELSE IF \E i \in 1..Len(after.wallets) : after.wallets[i].energy < 0
    THEN PC_ERR_INVALID_AMOUNT
    ELSE PC_OK

\* The balance of pubkey in the before state, 0.0 when it has no wallet.
BeforeBalance(before, pubkey) ==
    LET Balance(j) == IF j = 0 THEN 0 ELSE before.wallets[j].energy
    IN  Balance(pc_state_get_wallet(before, pubkey))

RECURSIVE DeltaSum(_, _, _, _)
\* The loop that accumulates delta_sum over after->wallets[i-1 ..].
DeltaSum(before, after, i, sum) ==
    IF i > Len(after.wallets) THEN sum
    ELSE DeltaSum(before, after, i + 1,
                  FAdd(sum, FSub(after.wallets[i].energy,
                                 BeforeBalance(before, after.wallets[i].public_key))))

\* required = (active * POC_QUORUM_PERCENT) / 100, at least 1
QuorumRequiredCeil(active) == (active * 2 + 2) \div 3
QuorumRequired(active) ==
    IF (active * POC_QUORUM_PERCENT) \div 100 = 0 THEN 1
    ELSE (active * POC_QUORUM_PERCENT) \div 100

\* The number of votes of one type among votes[0..num_votes-1].
CountVotes(c, type) ==
    Cardinality({i \in 1..Len(c.votes) : c.votes[i].vote = type})

\* poc_check_quorum: 1 approved, -1 rejected, 0 still waiting
poc_check_quorum(c) ==
    LET Decide(active, required) ==
            IF CountVotes(c, POC_VOTE_APPROVE) >= required THEN 1
            ELSE IF CountVotes(c, POC_VOTE_REJECT) > active - required THEN -1
            ELSE 0
        Counted(active) ==
            IF active < 3 THEN 0
            ELSE Decide(active, QuorumRequired(active))
    IN  IF ~c.has_proposal THEN 0
        ELSE Counted(poc_active_validator_count(c))

\* The duplicate check of poc_vote and poc_receive_vote.
AlreadyVotedNever(c, pubkey) == FALSE
AlreadyVoted(c, pubkey) ==
    \E i \in 1..Len(c.votes) : c.votes[i].validator_pubkey = pubkey

\* The POCVote poc_vote builds and signs.
LocalVote(c, vote_type, now) ==
    [sequence_num |-> c.current_proposal.sequence_num,
     round |-> c.current_proposal.round,
     proposal_hash |-> poc_hash_proposal(c.current_proposal),
     validator_pubkey |-> c.local_pubkey,
     signature |-> Ed25519(c.local_secret, poc_hash_proposal(c.current_proposal)),
     vote |-> vote_type, timestamp |-> now]

poc_vote(c, vote_type, now) ==
    IF ~c.is_validator THEN [c |-> c, err |-> PC_ERR_INVALID_SIGNATURE]
    ELSE IF ~c.has_proposal THEN [c |-> c, err |-> PC_ERR_IO]
    ELSE IF AlreadyVoted(c, c.local_pubkey)
    THEN [c |-> c, err |-> PC_ERR_WALLET_EXISTS]
    ELSE IF Len(c.votes) >= POC_MAX_VALIDATORS THEN [c |-> c, err |-> PC_ERR_IO]
    ELSE [c |-> [c EXCEPT !.votes = Append(@, LocalVote(c, vote_type, now)),
                          !.phase = IF @ = POC_PHASE_PRE_PREPARE
                                    THEN POC_PHASE_PREPARE ELSE @],
          err |-> PC_OK]

poc_receive_vote(c, vote) ==
    IF ~poc_is_validator(c, vote.validator_pubkey)
    THEN [c |-> c, err |-> PC_ERR_INVALID_SIGNATURE]
    ELSE IF ~Ed25519Verify(vote.signature, vote.proposal_hash, vote.validator_pubkey)
    THEN [c |-> c, err |-> PC_ERR_INVALID_SIGNATURE]
    ELSE IF AlreadyVoted(c, vote.validator_pubkey)
    THEN [c |-> c, err |-> PC_ERR_WALLET_EXISTS]
    ELSE IF Len(c.votes) < POC_MAX_VALIDATORS
    THEN [c |-> [c EXCEPT !.votes = Append(@, vote)], err |-> PC_OK]
    ELSE [c |-> c, err |-> PC_OK]

\* sequence_num of a new proposal
ProposalSequenceNumStale(c) == c.current_height
ProposalSequenceNum(c) == c.current_height + 1

\* The proposal poc_propose_transition fills in and signs.
NewProposal(c, before, after, proposer, now) ==
    LET Signed(p) == [p EXCEPT !.proposer_sig = Ed25519(proposer, poc_hash_proposal(p))]
    IN  Signed([ZeroProposal EXCEPT
                   !.sequence_num = ProposalSequenceNum(c),
                   !.round = c.current_round,
                   !.prev_state_hash = before.state_hash,
                   !.new_state_hash = after.state_hash,
                   !.total_supply = Double(after.total_supply),
                   !.delta_sum = Double(DeltaSum(before, after, 1, 0)),
                   !.timestamp = now,
                   !.proposer_pubkey = proposer])

poc_propose_transition(c, before, after, proposer, now) ==
    LET Proposed(leader) ==
            [c |-> poc_vote(
                     [c EXCEPT !.current_proposal =
                                   NewProposal(c, before, after, proposer, now),
                               !.has_proposal = TRUE,
                               !.phase = POC_PHASE_PRE_PREPARE,
                               !.votes = <<>>,
                               !.validators[leader].proposals = @ + 1,
                               !.validators[leader].last_seen = now],
                     POC_VOTE_APPROVE, now).c,
             err |-> PC_OK]
        Conserving(leader, cons_err) ==
            IF cons_err # PC_OK THEN [c |-> c, err |-> cons_err]
            ELSE Proposed(leader)
        Led(leader) ==
            IF leader = 0 THEN [c |-> c, err |-> PC_ERR_INVALID_SIGNATURE]
            ELSE IF c.validators[leader].pubkey # proposer
            THEN [c |-> c, err |-> PC_ERR_INVALID_SIGNATURE]
            ELSE Conserving(leader, verify_conservation(before, after))
    IN  Led(poc_get_current_leader(c))

poc_validate_proposal(c, proposal, current_state) ==
    IF ~poc_is_validator(c, proposal.proposer_pubkey)
    THEN PC_ERR_INVALID_SIGNATURE
    ELSE IF proposal.sequence_num # c.current_height + 1
    THEN PC_ERR_INVALID_SIGNATURE
    ELSE IF proposal.prev_state_hash # current_state.state_hash
    THEN PC_ERR_INVALID_SIGNATURE
    ELSE IF FabsExceeds(DSub(proposal.total_supply, Double(current_state.total_supply)))
    THEN PC_ERR_CONSERVATION_VIOLATED
    ELSE IF FabsExceeds(proposal.delta_sum)
    THEN PC_ERR_CONSERVATION_VIOLATED
    ELSE IF ~Ed25519Verify(proposal.proposer_sig, poc_hash_proposal(proposal),
                           proposal.proposer_pubkey)
    THEN PC_ERR_INVALID_SIGNATURE
    ELSE PC_OK

\* consensus->leader_index++
RotateLeaderNot(i) == i
RotateLeader(i) == i + 1

\* poc_finalize; the consensus it returns is the one poc_save writes.
poc_finalize(c, now) ==
    IF poc_check_quorum(c) # 1 THEN [c |-> c, err |-> PC_ERR_INVALID_SIGNATURE]
    ELSE [c |-> [c EXCEPT !.current_height = c.current_proposal.sequence_num,
                          !.last_finalized_time = now,
                          !.phase = POC_PHASE_FINALIZED,
                          !.leader_index = RotateLeader(@),
                          !.current_round = 0,
                          !.has_proposal = FALSE,
                          !.votes = <<>>],
          err |-> PC_OK]

poc_next_round(c, now) ==
    [c EXCEPT !.current_round = @ + 1,
              !.phase = POC_PHASE_IDLE,
              !.has_proposal = FALSE,
              !.votes = <<>>,
              !.round_start_time = now,
              !.leader_index = IF c.current_round + 1 > 0
                               THEN RotateLeader(@) ELSE @]

(***************************************************************************)
(* validator.c: the registry of staking validators                         *)
(***************************************************************************)
MAX_VALIDATORS == 100
MIN_STAKE == 1000
VALIDATOR_ACTIVE == "VALIDATOR_ACTIVE"
VALIDATOR_JAILED == "VALIDATOR_JAILED"
VALIDATOR_UNBONDING == "VALIDATOR_UNBONDING"
VALIDATOR_INACTIVE == "VALIDATOR_INACTIVE"

\* validator_registry_init: the registry zeroed; count is the length of
\* validators.
ZeroRegistry == [validators |-> <<>>, total_staked |-> 0, active_count |-> 0]

\* find_validator: the index of the first validator with that key, 0 when
\* there is none.
find_validator(reg, pubkey) ==
    LET First(found) == IF found = {} THEN 0
                        ELSE CHOOSE i \in found : \A j \in found : i <= j
    IN  First({i \in 1..Len(reg.validators) : reg.validators[i].pubkey = pubkey})

\* reg->active_count--, on a uint32_t: the count is held as the
\* representative in -2^31 .. 2^31 - 1 of its value modulo 2^32, so that
\* -1 stands for UINT32_MAX.
DecrementActive(n) == n - 1

\* validator_stake: the amount leaves the wallet and is recorded in the
\* registry.
validator_stake(reg, st, pubkey, amount, now) ==
    LET Staked(wi) ==
            [reg |-> [reg EXCEPT
                        !.validators =
                            Append(@, [pubkey |-> pubkey, staked_amount |-> amount,
                                       joined_at |-> now, last_active |-> now,
                                       blocks_signed |-> 0, blocks_missed |-> 0,
                                       slashes |-> 0, status |-> VALIDATOR_ACTIVE]),
                        !.active_count = @ + 1,
                        !.total_staked = FAdd(@, amount)],
             st  |-> [st EXCEPT !.wallets[wi].energy = FSub(@, amount)],
             err |-> PC_OK]
        Funded(wi) ==
            IF wi = 0 THEN [reg |-> reg, st |-> st, err |-> PC_ERR_INSUFFICIENT_FUNDS]
            ELSE IF st.wallets[wi].energy < amount
            THEN [reg |-> reg, st |-> st, err |-> PC_ERR_INSUFFICIENT_FUNDS]
            ELSE Staked(wi)
    IN  IF Len(reg.validators) >= MAX_VALIDATORS
        THEN [reg |-> reg, st |-> st, err |-> PC_ERR_MAX_WALLETS]
        ELSE IF amount < MIN_STAKE
        THEN [reg |-> reg, st |-> st, err |-> PC_ERR_INSUFFICIENT_FUNDS]
        ELSE IF find_validator(reg, pubkey) # 0
        THEN [reg |-> reg, st |-> st, err |-> PC_ERR_WALLET_EXISTS]
        ELSE Funded(pc_state_get_wallet(st, pubkey))

\* validator_unstake
validator_unstake(reg, pubkey) ==
    LET Found(i) ==
            IF i = 0 THEN [reg |-> reg, err |-> PC_ERR_WALLET_NOT_FOUND]
            ELSE IF reg.validators[i].status # VALIDATOR_ACTIVE
            THEN [reg |-> reg, err |-> PC_ERR_INVALID_SIGNATURE]
            ELSE [reg |-> [reg EXCEPT
                             !.validators[i].status = VALIDATOR_UNBONDING,
                             !.active_count = DecrementActive(@)],
                  err |-> PC_OK]
    IN  Found(find_validator(reg, pubkey))

\* validator_withdraw: the stake that is left returns to the wallet.
validator_withdraw(reg, st, pubkey) ==
    LET Returned(i, wi) ==
            IF wi = 0 THEN [reg |-> reg, st |-> st, err |-> PC_ERR_WALLET_NOT_FOUND]
            ELSE [reg |-> [reg EXCEPT
                             !.total_staked = FSub(@, reg.validators[i].staked_amount),
                             !.validators[i].status = VALIDATOR_INACTIVE,
                             !.validators[i].staked_amount = 0],
                  st  |-> [st EXCEPT !.wallets[wi].energy =
                                        FAdd(@, reg.validators[i].staked_amount)],
                  err |-> PC_OK]
        Found(i) ==
            IF i = 0 THEN [reg |-> reg, st |-> st, err |-> PC_ERR_WALLET_NOT_FOUND]
            ELSE IF reg.validators[i].status # VALIDATOR_UNBONDING
            THEN [reg |-> reg, st |-> st, err |-> PC_ERR_INVALID_SIGNATURE]
            ELSE Returned(i, pc_state_get_wallet(st, pubkey))
    IN  Found(find_validator(reg, pubkey))

\* staked_amount * (slash_pct / 100.0), rounded once; exact for the whole
\* and the half of a stake.
SlashAmount(staked_amount, slash_pct) ==
    RoundNearestEven((staked_amount * slash_pct) \div 100)

\* validator_slash: the slashed part of the stake is taken off the
\* registry and off total_supply.
validator_slash(reg, st, pubkey, slash_pct) ==
    LET Slashed(i, slash_amount) ==
            [reg |-> [reg EXCEPT
                        !.validators[i].staked_amount = FSub(@, slash_amount),
                        !.total_staked = FSub(@, slash_amount),
                        !.validators[i].slashes = @ + 1,
                        !.validators[i].status =
                            IF reg.validators[i].slashes + 1 >= 3
                            THEN VALIDATOR_JAILED ELSE @,
                        !.active_count =
                            IF reg.validators[i].slashes + 1 >= 3
                            THEN DecrementActive(@) ELSE @],
             st  |-> [st EXCEPT !.total_supply = FSub(@, slash_amount)],
             err |-> PC_OK]
        Found(i) ==
            IF i = 0 THEN [reg |-> reg, st |-> st, err |-> PC_ERR_WALLET_NOT_FOUND]
            ELSE Slashed(i, SlashAmount(reg.validators[i].staked_amount, slash_pct))
    IN  IF slash_pct <= 0 \/ slash_pct > 100
        THEN [reg |-> reg, st |-> st, err |-> PC_ERR_INVALID_AMOUNT]
        ELSE Found(find_validator(reg, pubkey))

(***************************************************************************)
(* poc_consensus.c: the cross-shard locks of a POCConsensus                *)
(***************************************************************************)
\* Seconds a lock lives: lock->expiry = time(NULL) + 300
LOCK_EXPIRY == 300
\* pending_locks[1000]
MAX_PENDING_LOCKS == 1000

\* No lock is ever found pending.
PendingLockIndexNone(c, sender, now) == 0

\* The index in pending_locks[] of the first unexpired lock of sender, 0 when
\* there is none.
PendingLockIndex(c, sender, now) ==
    LET First(found) == IF found = {} THEN 0
                        ELSE CHOOSE i \in found : \A j \in found : i <= j
    IN  First({i \in 1..Len(c.pending_locks) :
                  /\ c.pending_locks[i].sender_pubkey = sender
                  /\ c.pending_locks[i].expiry > now})

\* poc_has_pending_lock
poc_has_pending_lock(c, sender, now) ==
    IF PendingLockIndex(c, sender, now) # 0 THEN 1 ELSE 0

\* The SHA-256 of sender, amount, the two shards and the sequence.
LockHash(sender, amount, source_shard, target_shard, sequence) ==
    <<sender, amount, source_shard, target_shard, sequence>>

\* poc_acquire_lock
poc_acquire_lock(c, sender, amount, source_shard, target_shard, now) ==
    LET NewLock(sequence) ==
            [sender_pubkey |-> sender,
             lock_hash |-> LockHash(sender, amount, source_shard, target_shard,
                                    sequence),
             amount |-> amount, source_shard |-> source_shard,
             target_shard |-> target_shard, sequence |-> sequence,
             expiry |-> now + LOCK_EXPIRY, committed |-> 0]
    IN  IF poc_has_pending_lock(c, sender, now) = 1
        THEN [c |-> c, err |-> PC_ERR_WALLET_EXISTS]
        ELSE IF Len(c.pending_locks) >= MAX_PENDING_LOCKS
        THEN [c |-> c, err |-> PC_ERR_IO]
        ELSE [c |-> [c EXCEPT !.pending_locks =
                        Append(@, NewLock(Len(c.pending_locks) + 1))],
              err |-> PC_OK]

\* poc_release_lock: the first lock with that hash is removed, the later
\* ones shift down.
poc_release_lock(c, lock_hash) ==
    LET First(found) == IF found = {} THEN 0
                        ELSE CHOOSE i \in found : \A j \in found : i <= j
        Removed(i) ==
            IF i = 0 THEN [c |-> c, err |-> PC_ERR_WALLET_NOT_FOUND]
            ELSE [c |-> [c EXCEPT !.pending_locks =
                            SubSeq(@, 1, i - 1) \o SubSeq(@, i + 1, Len(@))],
                  err |-> PC_OK]
    IN  Removed(First({i \in 1..Len(c.pending_locks) :
                          c.pending_locks[i].lock_hash = lock_hash}))

(***************************************************************************)
(* sharding.c: the sharded network as functions on a PCShardedNetwork      *)
(***************************************************************************)
NUM_SHARDS == 16
ShardIds == 0..(NUM_SHARDS - 1)

\* pubkey[0] of the modelled keys: 0x05, 0x5A and 0x0C.
FirstByte(pubkey) == IF pubkey = 1 THEN 5 ELSE IF pubkey = 2 THEN 90 ELSE 12

\* get_shard_for_wallet: pubkey[0] >> 4
get_shard_for_wallet(pubkey) == FirstByte(pubkey) \div 16

\* The death of the process on a write through a NULL pointer.
SIGSEGV == "SIGSEGV"

\* A PCShardedNetwork of zeroed memory.
ZeroNetwork ==
    [shards |-> [i \in ShardIds |->
                    [local_state |-> [version |-> 0, timestamp |-> 0,
                                      wallets |-> <<>>, total_supply |-> 0,
                                      wallets_capacity |-> 0,
                                      state_hash |-> ZeroHash,
                                      prev_hash |-> ZeroHash],
                     shard_hash |-> ZeroHash, transaction_count |-> 0]],
     num_shards |-> 0, total_supply |-> 0]

\* A PCTransaction of zeroed memory.
ZeroTx ==
    [from |-> 0, to |-> 0, amount |-> 0, nonce |-> 0, timestamp |-> 0,
     signature |-> ZeroSignature]

\* pc_state_compute_hash on the shard's state, then the copy to shard_hash
Rehashed(shard) ==
    LET Hashed(st) == [shard EXCEPT !.local_state = st,
                                    !.shard_hash = st.state_hash]
    IN  Hashed(pc_state_compute_hash(shard.local_state))

\* pc_sharding_init
pc_sharding_init(initial_supply, now) ==
    [shards |-> [i \in ShardIds |->
                    Rehashed([local_state |->
                                 [version |-> 1, timestamp |-> now,
                                  wallets |-> <<>>, total_supply |-> 0,
                                  wallets_capacity |-> 0,
                                  state_hash |-> ZeroHash,
                                  prev_hash |-> ZeroHash],
                              shard_hash |-> ZeroHash,
                              transaction_count |-> 0])],
     num_shards |-> NUM_SHARDS, total_supply |-> initial_supply]

\* pc_state_create_wallet where realloc may return NULL (nomem): PC_ERR_IO
\* when the array has to grow and cannot.
CreateWalletOrNoMem(st, pubkey, balance, nomem) ==
    IF /\ nomem
       /\ pc_state_get_wallet(st, pubkey) = 0
       /\ Len(st.wallets) >= st.wallets_capacity
       /\ (IF st.wallets_capacity = 0 THEN 8 ELSE st.wallets_capacity * 2)
              <= PHYSICSCOIN_MAX_WALLETS
    THEN [st |-> st, err |-> PC_ERR_IO]
    ELSE pc_state_create_wallet(st, pubkey, balance)

\* pc_sharding_create_wallet
pc_sharding_create_wallet(network, pubkey, balance, nomem) ==
    LET id == get_shard_for_wallet(pubkey)
        Created(r) ==
            IF r.err # PC_OK THEN [network |-> network, err |-> r.err]
            ELSE [network |-> [network EXCEPT !.shards[id] =
                                  Rehashed([@ EXCEPT !.local_state = r.st])],
                  err |-> PC_OK]
    IN  Created(CreateWalletOrNoMem(network.shards[id].local_state, pubkey,
                                    balance, nomem))

\* pc_sharding_execute_intra_tx
pc_sharding_execute_intra_tx(network, tx, now, moved) ==
    LET id == get_shard_for_wallet(tx.from)
        Executed(r) ==
            IF r.err # PC_OK
            THEN [network |-> [network EXCEPT !.shards[id].local_state = r.st],
                  err |-> r.err]
            ELSE [network |-> [network EXCEPT !.shards[id] =
                                  Rehashed([@ EXCEPT
                                      !.local_state = r.st,
                                      !.transaction_count = @ + 1])],
                  err |-> PC_OK]
    IN  IF get_shard_for_wallet(tx.to) # id
        THEN [network |-> network, err |-> PC_ERR_INVALID_SIGNATURE]
        ELSE Executed(pc_state_execute_tx(network.shards[id].local_state, tx,
                                          now, moved))

\* Phase 1 of pc_sharding_execute_cross_tx (lines 140-143) on the source
\* shard, the sender's wallet being wallets[si].
CrossPhase1(shard, si, amount) ==
    [shard EXCEPT !.local_state.wallets[si].energy = FSub(@, amount),
                  !.local_state.wallets[si].nonce = @ + 1,
                  !.local_state.total_supply = FSub(@, amount)]

\* Phase 2 (lines 154-155) on the destination shard, the receiver's wallet
\* being wallets[ri].
CrossPhase2(shard, ri, amount) ==
    [shard EXCEPT !.local_state.wallets[ri].energy = FAdd(@, amount),
                  !.local_state.total_supply = FAdd(@, amount)]

\* pc_sharding_execute_cross_tx.  When the receiver's wallet cannot be
\* created the second pc_state_get_wallet returns NULL and line 154 writes
\* through it: the process dies with phase 1 applied in its memory.
pc_sharding_execute_cross_tx(network, tx, nomem) ==
    LET from_id == get_shard_for_wallet(tx.from)
        to_id   == get_shard_for_wallet(tx.to)
        \* lines 157-167
        Completed(n2) ==
            [network |-> [n2 EXCEPT
                 !.shards[from_id] =
                     Rehashed([@ EXCEPT !.transaction_count = @ + 1]),
                 !.shards[to_id] =
                     Rehashed([@ EXCEPT !.transaction_count = @ + 1])],
             err |-> PC_OK]
        \* lines 154-155
        Commit(n1, ri) ==
            IF ri = 0 THEN [network |-> n1, err |-> SIGSEGV]
            ELSE Completed([n1 EXCEPT !.shards[to_id] =
                               CrossPhase2(@, ri, tx.amount)])
        \* lines 148-152
        Receiver(n1, cr) ==
            Commit([n1 EXCEPT !.shards[to_id].local_state = cr.st],
                   pc_state_get_wallet(cr.st, tx.to))
        Phase2(n1) ==
            IF pc_state_get_wallet(n1.shards[to_id].local_state, tx.to) # 0
            THEN Commit(n1, pc_state_get_wallet(n1.shards[to_id].local_state,
                                                tx.to))
            ELSE Receiver(n1, CreateWalletOrNoMem(
                                  n1.shards[to_id].local_state, tx.to, 0, nomem))
        \* lines 132-143
        Phase1(si) ==
            IF si = 0 THEN [network |-> network, err |-> PC_ERR_WALLET_NOT_FOUND]
            ELSE IF network.shards[from_id].local_state.wallets[si].energy
                        < tx.amount
            THEN [network |-> network, err |-> PC_ERR_INSUFFICIENT_FUNDS]
            ELSE Phase2([network EXCEPT !.shards[from_id] =
                            CrossPhase1(@, si, tx.amount)])
    IN  IF from_id = to_id
        THEN [network |-> network, err |-> PC_ERR_INVALID_SIGNATURE]
        ELSE Phase1(pc_state_get_wallet(network.shards[from_id].local_state,
                                        tx.from))

\* The sum pc_sharding_verify_conservation accumulates over shards 0..n-1.
RECURSIVE ShardSupplySum(_, _)
ShardSupplySum(network, n) ==
    IF n = 0 THEN 0
    ELSE FAdd(ShardSupplySum(network, n - 1),
              network.shards[n - 1].local_state.total_supply)

\* pc_sharding_verify_conservation (fabs(total - total_supply) > 1e-9)
pc_sharding_verify_conservation(network) ==
    IF ExceedsTolerance(FSub(ShardSupplySum(network, NUM_SHARDS),
                             network.total_supply))
    THEN PC_ERR_CONSERVATION_VIOLATED ELSE PC_OK

(***************************************************************************)
(* delta.c: state deltas for light clients                                 *)
(***************************************************************************)
MAX_DELTA_CHANGES == 1000

\* A PCStateDelta of zeroed memory.  changes holds changes[0..num_changes-1].
ZeroDelta ==
    [prev_hash |-> ZeroHash, new_hash |-> ZeroHash, prev_timestamp |-> 0,
     new_timestamp |-> 0, total_supply |-> 0, changes |-> <<>>]

RECURSIVE WalletChanges(_, _, _, _)
\* The loop of pc_delta_compute over after->wallets[i-1..]: a wallet that is
\* new, or whose energy or nonce differs, is recorded while there is room.
WalletChanges(before, after, i, changes) ==
    LET Recorded(w, old) ==
            IF /\ old # 0
               /\ before.wallets[old].energy = w.energy
               /\ before.wallets[old].nonce = w.nonce
            THEN changes
            ELSE IF Len(changes) >= MAX_DELTA_CHANGES THEN changes
            ELSE Append(changes,
                        [pubkey |-> w.public_key,
                         old_balance |-> IF old = 0 THEN 0
                                         ELSE before.wallets[old].energy,
                         new_balance |-> w.energy,
                         old_nonce |-> IF old = 0 THEN 0
                                       ELSE before.wallets[old].nonce,
                         new_nonce |-> w.nonce])
    IN  IF i > Len(after.wallets) THEN changes
        ELSE WalletChanges(before, after, i + 1,
                           Recorded(after.wallets[i],
                                    pc_state_get_wallet(before,
                                        after.wallets[i].public_key)))

\* pc_delta_compute
pc_delta_compute(before, after) ==
    [prev_hash |-> before.state_hash, new_hash |-> after.state_hash,
     prev_timestamp |-> before.timestamp, new_timestamp |-> after.timestamp,
     total_supply |-> after.total_supply,
     changes |-> WalletChanges(before, after, 1, <<>>)]

RECURSIVE DeltaEffect(_, _, _, _)
\* delta_effect of verify_delta_conservation, accumulated over changes[i-1..]
DeltaEffect(st, changes, i, effect) ==
    LET Term(wd, j) == IF j = 0 THEN wd.new_balance
                       ELSE FSub(wd.new_balance, st.wallets[j].energy)
    IN  IF i > Len(changes) THEN effect
        ELSE DeltaEffect(st, changes, i + 1,
                         FAdd(effect, Term(changes[i],
                                           pc_state_get_wallet(st, changes[i].pubkey))))

\* verify_delta_conservation
verify_delta_conservation(st, delta) ==
    IF ExceedsTolerance(FSub(FAdd(actual_sum(st.wallets),
                                  DeltaEffect(st, delta.changes, 1, 0)),
                             delta.total_supply))
    THEN PC_ERR_CONSERVATION_VIOLATED
    ELSE IF \E i \in 1..Len(delta.changes) : delta.changes[i].new_balance < 0
    THEN PC_ERR_INVALID_AMOUNT
    ELSE PC_OK

RECURSIVE ApplyChanges(_, _, _)
\* The loop of pc_delta_apply (lines 166-181) over changes[i-1..], in place.
ApplyChanges(st, changes, i) ==
    LET Written(s1, wd) ==
            [s1 EXCEPT !.wallets[pc_state_get_wallet(s1, wd.pubkey)] =
                          [@ EXCEPT !.energy = wd.new_balance,
                                    !.nonce = wd.new_nonce]]
        Created(cr, wd) ==
            IF cr.err # PC_OK /\ cr.err # PC_ERR_WALLET_EXISTS
            THEN [st |-> cr.st, err |-> cr.err]
            ELSE ApplyChanges(Written(cr.st, wd), changes, i + 1)
        Change(wd) ==
            IF pc_state_get_wallet(st, wd.pubkey) # 0
            THEN ApplyChanges(Written(st, wd), changes, i + 1)
            ELSE Created(pc_state_create_wallet(st, wd.pubkey, 0), wd)
    IN  IF i > Len(changes) THEN [st |-> st, err |-> PC_OK]
        ELSE Change(changes[i])

\* pc_delta_apply: the state is written in place, so that what a failing
\* call has written stays.
pc_delta_apply(st, delta) ==
    LET \* check 5
        Final(s3) ==
            IF pc_state_verify_conservation(s3) # PC_OK
            THEN [st |-> s3, err |-> PC_ERR_CONSERVATION_VIOLATED]
            ELSE [st |-> s3, err |-> PC_OK]
        \* check 4
        Hashed(s3) ==
            IF s3.state_hash # delta.new_hash
            THEN [st |-> s3, err |-> PC_ERR_INVALID_SIGNATURE]
            ELSE Final(s3)
        \* lines 183-188
        Applied(r) ==
            IF r.err # PC_OK THEN r
            ELSE Hashed(pc_state_compute_hash(
                            [r.st EXCEPT !.timestamp = delta.new_timestamp,
                                         !.prev_hash = delta.prev_hash]))
        \* checks 2 and 3
        Checked(cons_check) ==
            IF cons_check # PC_OK THEN [st |-> st, err |-> cons_check]
            ELSE IF /\ st.total_supply > 0
                    /\ ExceedsTolerance(FSub(delta.total_supply, st.total_supply))
            THEN [st |-> st, err |-> PC_ERR_CONSERVATION_VIOLATED]
            ELSE Applied(ApplyChanges(st, delta.changes, 1))
    IN  IF st.state_hash # delta.prev_hash
        THEN [st |-> st, err |-> PC_ERR_INVALID_SIGNATURE]
        ELSE Checked(verify_delta_conservation(st, delta))

(***************************************************************************)
(* Variables                                                               *)
(***************************************************************************)
VARIABLES
    state,           \* the node's PCState
    has_state,       \* whether `state` holds a ledger (genesis or recovery built it)
    genesis_supply,  \* the supply passed to the successful pc_state_genesis
    call,            \* the last function called
    ret,             \* its return code
    clock,           \* the value time(NULL) returns
    wal,             \* the PCWAL handle of the running process
    wal_file,        \* physicscoin.wal as the writes so far left it
    stable,          \* how much of wal_file stable storage holds
    checkpoint_file, \* physicscoin.checkpoint
    appended,        \* the sequence numbers of the entries appended, in order
    original,        \* the PCState the last run ended with (crash or close)
    nodes,           \* the PCState of each of two independent nodes
    applied,         \* the inputs each of them has applied, in order
    accepted,        \* the transactions handle_tx applied and broadcast, in order
    violations,      \* peer->violations of the peer the daemon listens to
    state_file,      \* state.pcs of the daemon
    poc,             \* the POCConsensus of a validator node
    poc_file,        \* poc_consensus.dat as poc_save left it
    finalized,       \* the proposals poc_finalize finalized, in order
    received,        \* the arguments of the last poc_validate_proposal
    replicas,        \* two POCConsensus holding the same pending proposal
    delivered,       \* the votes delivered to each of them, in order
    network,         \* the PCShardedNetwork
    shard_tx,        \* the transaction of the last sharded transfer
    crashed,         \* the process of the sharded network died
    client,          \* the PCState of a light client
    delta_msg,       \* the PCStateDelta it was last sent
    client_failed,   \* a pc_delta_apply of the light client has failed
    peer,            \* the PCNodePeer of the daemon's slot for a remote party
    trusted_validators, \* node->trusted_validators, the trusted ones
    sig_headers,     \* the PCSignedStateHeaders the slot's peer has sent
    handled,         \* the last message reached the switch of handle_message
    cluster,         \* the POCConsensus of each honest validator of a network
    ballots,         \* the votes the honest validators have broadcast
    decided,         \* what each of them has finalized, in order
    registry         \* the PCValidatorRegistry of the staking validators

corevars == <<state, has_state, genesis_supply>>
walvars == <<wal, wal_file, stable, checkpoint_file, appended, original>>
nodevars == <<nodes, applied>>
daemonvars == <<accepted, violations, state_file>>
pocvars == <<poc, poc_file, finalized, received, replicas, delivered>>
shardvars == <<network, shard_tx, crashed>>
syncvars == <<client, delta_msg, client_failed>>
peervars == <<peer, trusted_validators, sig_headers, handled>>
netvars == <<cluster, ballots, decided>>
stakevars == <<registry>>
extvars == <<shardvars, syncvars, peervars, netvars, stakevars>>
vars == <<corevars, call, ret, clock, walvars, nodevars, daemonvars, pocvars,
          extvars>>

\* A PCState before pc_state_genesis: zeroed memory.
\* memset(peer, 0, sizeof(PCNodePeer))
ZeroPeer ==
    [connected |-> FALSE, node_pubkey |-> 0, is_validator |-> 0,
     msg_count |-> 0, tx_count |-> 0, rate_reset |-> 0,
     banned |-> 0, ban_until |-> 0, violations |-> 0]

ZeroState ==
    [version |-> 0, timestamp |-> 0, wallets |-> <<>>, total_supply |-> 0,
     wallets_capacity |-> 0, state_hash |-> ZeroHash, prev_hash |-> ZeroHash]

Nodes == {1, 2}
Replicas == {1, 2}

Init ==
    /\ state = ZeroState
    /\ has_state = FALSE
    /\ genesis_supply = 0
    /\ call = "none"
    /\ ret = PC_OK
    /\ clock = 0
    /\ wal = ZeroWal
    /\ wal_file = [header |-> NoHeader, entries |-> <<>>]
    /\ stable = [header |-> NoHeader, entries |-> 0]
    /\ checkpoint_file = NoFile
    /\ appended = <<>>
    /\ original = ZeroState
    /\ nodes = [n \in Nodes |-> ZeroState]
    /\ applied = [n \in Nodes |-> <<>>]
    /\ accepted = <<>>
    /\ violations = 0
    /\ state_file = NoFile
    /\ poc = ZeroPoc
    /\ poc_file = NoFile
    /\ finalized = <<>>
    /\ received = [proposal |-> ZeroProposal, current_state |-> ZeroState]
    /\ replicas = [r \in Replicas |-> ZeroPoc]
    /\ delivered = [r \in Replicas |-> <<>>]
    /\ network = ZeroNetwork
    /\ shard_tx = ZeroTx
    /\ crashed = FALSE
    /\ client = ZeroState
    /\ delta_msg = ZeroDelta
    /\ client_failed = FALSE
    /\ peer = ZeroPeer
    /\ trusted_validators = <<>>
    /\ sig_headers = {}
    /\ handled = FALSE
    /\ cluster = [v \in Honest |-> ZeroPoc]
    /\ ballots = {}
    /\ decided = [v \in Honest |-> <<>>]
    /\ registry = ZeroRegistry

(***************************************************************************)
(* Transactions a client can submit                                        *)
(***************************************************************************)
RawTx(from, to, amount, nonce) ==
    [from |-> from, to |-> to, amount |-> amount, nonce |-> nonce,
     timestamp |-> 0, signature |-> ZeroSignature]

\* Signed by `signer` (left unsigned when the signer is not the sender),
\* then optionally tampered with: the amount raised after signing.
ClientTx(from, to, amount, nonce, signer, tamper) ==
    LET s == pc_transaction_sign(RawTx(from, to, amount, nonce), signer)
    IN  IF tamper THEN [s EXCEPT !.amount = @ + 1] ELSE s

TxInputs ==
    {ClientTx(f, t, a, n, f, FALSE) :
        f \in KeyStore, t \in Keys, a \in Amounts, n \in 0..MaxNonce}
    \cup {ClientTx(1, 2, 1, 0, 1, TRUE), ClientTx(1, 2, 1, 0, 2, FALSE),
          ClientTx(3, 1, 1, 0, 1, FALSE)}

NonceOf(st, pubkey) == st.wallets[pc_state_get_wallet(st, pubkey)].nonce

\* The transfers of one coin that a wallet holder among `senders` signs with
\* its current nonce.
NextTransfers(st, senders) ==
    {ClientTx(f, t, 1, NonceOf(st, f), f, FALSE) :
        f \in {k \in senders : /\ pc_state_get_wallet(st, k) # 0
                                /\ NonceOf(st, k) < MaxNonce},
        t \in KeyStore} \ {tx \in TxInputs : tx.from = tx.to}

(***************************************************************************)
(* Actions of the state engine                                             *)
(***************************************************************************)
\* time passes
Tick ==
    /\ clock < MaxTime
    /\ clock' = clock + 1
    /\ UNCHANGED <<corevars, call, ret, walvars, nodevars, daemonvars, pocvars, extvars>>

\* pc_state_genesis(&state, founder, supply), once
Genesis(founder, supply) ==
    /\ ~has_state
    /\ LET g == pc_state_genesis(state, founder, supply, clock)
       IN  /\ state' = g.st
           /\ ret' = g.err
           /\ has_state' = (g.err = PC_OK)
           /\ genesis_supply' = IF g.err = PC_OK THEN supply ELSE genesis_supply
    /\ call' = "genesis"
    /\ UNCHANGED <<clock, walvars, nodevars, daemonvars, pocvars, extvars>>

\* Whether every nonce of st is below the cap of the model.
NoncesBelowCap(st) == \A i \in 1..Len(st.wallets) : st.wallets[i].nonce < MaxNonce

\* pc_state_execute_tx(&state, &tx)
Execute(tx) ==
    /\ has_state
    /\ NoncesBelowCap(state)
    /\ \E moved \in ReallocMoves(state) :
          LET e == pc_state_execute_tx(state, tx, clock, moved)
          IN  /\ state' = e.st
              /\ ret' = e.err
    /\ call' = "execute"
    /\ UNCHANGED <<has_state, genesis_supply, clock, walvars, nodevars, daemonvars, pocvars, extvars>>

\* pc_state_create_wallet(&state, pubkey, initial_balance)
CreateWallet(pubkey, initial_balance) ==
    /\ has_state
    /\ LET c == pc_state_create_wallet(state, pubkey, initial_balance)
       IN  /\ state' = c.st
           /\ ret' = c.err
    /\ call' = "create_wallet"
    /\ UNCHANGED <<has_state, genesis_supply, clock, walvars, nodevars, daemonvars, pocvars, extvars>>

\* The loop of test_mass_transactions: pc_state_create_wallet(&state, k, 0)
\* for each of the other NUM_WALLETS - 1 keys, right after genesis.
CreateEach(st, ks) ==
    LET fresh == {k \in ks : pc_state_get_wallet(st, k) = 0}
        lo    == CHOOSE x \in ks : \A y \in ks : x <= y
        tail  == [i \in 1..Cardinality(ks) |->
                    [public_key |-> lo + i - 1, energy |-> 0, nonce |-> 0]]
    IN  IF fresh = ks /\ Len(st.wallets) + Cardinality(ks) <= st.wallets_capacity
        THEN [st EXCEPT !.wallets = @ \o tail]
        ELSE st

CreateWalletLoop ==
    /\ has_state
    /\ Len(state.wallets) = 1
    /\ Len(state.wallets) + Cardinality(FillerKeys) <= state.wallets_capacity
    /\ state' = CreateEach(state, FillerKeys)
    /\ ret' = PC_OK
    /\ call' = "create_wallet"
    /\ UNCHANGED <<has_state, genesis_supply, clock, walvars, nodevars, daemonvars, pocvars, extvars>>

(***************************************************************************)
(* Specifications of the state engine                                      *)
(***************************************************************************)
\* Genesis followed by pc_state_execute_tx calls only.
NextExec ==
    \/ \E supply \in Supplies : Genesis(Founder, supply)
    \/ \E tx \in TxInputs : Execute(tx)

SpecExec == Init /\ [][NextExec]_vars

\* Genesis, pc_state_execute_tx and pc_state_create_wallet calls.
NextLedger ==
    \/ \E supply \in Supplies : Genesis(Founder, supply)
    \/ \E tx \in TxInputs : Execute(tx)
    \/ \E k \in Keys, b \in InitialBalances : CreateWallet(k, b)

SpecLedger == Init /\ [][NextLedger]_vars

\* The same with the stress test's registration loop, which fills the
\* wallet array to its initial capacity.
Next ==
    \/ \E supply \in Supplies : Genesis(Founder, supply)
    \/ \E tx \in TxInputs : Execute(tx)
    \/ \E k \in Keys, b \in InitialBalances : CreateWallet(k, b)
    \/ CreateWalletLoop

Spec == Init /\ [][Next]_vars

(***************************************************************************)
(* Two nodes applying the same inputs                                      *)
(***************************************************************************)
\* The supplies of the shared genesis and the transactions broadcast.
NodeSupplies == {3}
NodeTxInputs == {ClientTx(Founder, 2, 1, n, Founder, FALSE) : n \in 0..MaxNonce}

\* Node n runs pc_state_genesis at its own time.
NodeGenesis(n, supply) ==
    /\ applied[n] = <<>>
    /\ LET g == pc_state_genesis(nodes[n], Founder, supply, clock)
       IN  /\ nodes' = [nodes EXCEPT ![n] = g.st]
           /\ ret' = g.err
    /\ applied' = [applied EXCEPT ![n] = <<supply>>]
    /\ call' = "genesis"
    /\ UNCHANGED <<corevars, clock, walvars, daemonvars, pocvars, extvars>>

\* Node n runs pc_state_execute_tx on a broadcast transaction at its own time.
NodeExecute(n, tx) ==
    /\ applied[n] # <<>>
    /\ Len(applied[n]) <= MaxNonce
    /\ LET e == pc_state_execute_tx(nodes[n], tx, clock, FALSE)
       IN  /\ nodes' = [nodes EXCEPT ![n] = e.st]
           /\ ret' = e.err
    /\ applied' = [applied EXCEPT ![n] = Append(@, tx)]
    /\ call' = "execute"
    /\ UNCHANGED <<corevars, clock, walvars, daemonvars, pocvars, extvars>>

NextNodes ==
    \/ \E n \in Nodes, supply \in NodeSupplies : NodeGenesis(n, supply)
    \/ \E n \in Nodes, tx \in NodeTxInputs : NodeExecute(n, tx)
    \/ Tick

SpecNodes == Init /\ [][NextNodes]_vars

(***************************************************************************)
(* A node that logs to the WAL before it executes                          *)
(***************************************************************************)
\* The supplies of the logged genesis.
WalSupplies == {3}

\* pc_wal_init(&wal, WAL_FILENAME) by a process that has no WAL open.
WalInit(syncOK) ==
    /\ ~wal.file
    /\ LET r == pc_wal_init(wal_file, stable, syncOK)
       IN  /\ wal' = r.wal
           /\ wal_file' = r.file
           /\ stable' = r.stable
           /\ ret' = r.err
    /\ call' = "wal_init"
    /\ UNCHANGED <<corevars, clock, checkpoint_file, appended, original,
                   nodevars, daemonvars, pocvars, extvars>>

\* pc_wal_log_genesis, then pc_state_genesis with the same arguments.
LoggedGenesis(supply, syncOK) ==
    /\ wal.file
    /\ ~has_state
    /\ Len(appended) < MaxEntries
    /\ LET r == pc_wal_log_genesis(wal, wal_file, stable, Founder, supply, syncOK)
           g == pc_state_genesis(state, Founder, supply, clock)
       IN  /\ wal' = r.wal
           /\ wal_file' = r.file
           /\ stable' = r.stable
           /\ ret' = r.err
           /\ state' = g.st
           /\ has_state' = (g.err = PC_OK)
           /\ genesis_supply' = IF g.err = PC_OK THEN supply ELSE genesis_supply
    /\ appended' = Append(appended, wal.current_sequence)
    /\ call' = "log_genesis"
    /\ UNCHANGED <<clock, checkpoint_file, original, nodevars, daemonvars, pocvars, extvars>>

\* pc_wal_log_tx, then pc_state_execute_tx on the same transaction.
LoggedExecute(tx, syncOK) ==
    /\ wal.file
    /\ has_state
    /\ Len(appended) < MaxEntries
    /\ LET r == pc_wal_log_tx(wal, wal_file, stable, tx, syncOK)
           e == pc_state_execute_tx(state, tx, clock, FALSE)
       IN  /\ wal' = r.wal
           /\ wal_file' = r.file
           /\ stable' = r.stable
           /\ ret' = r.err
           /\ state' = e.st
    /\ appended' = Append(appended, wal.current_sequence)
    /\ call' = "log_tx"
    /\ UNCHANGED <<has_state, genesis_supply, clock, checkpoint_file, original,
                   nodevars, daemonvars, pocvars, extvars>>

\* pc_wal_checkpoint(&wal, &state): the image of the state replaces the
\* checkpoint file, then the entry is appended.
Checkpoint(syncOK) ==
    /\ wal.file
    /\ has_state
    /\ Len(appended) < MaxEntries
    /\ LET r == pc_wal_checkpoint(wal, wal_file, stable, state.state_hash, syncOK)
       IN  /\ wal' = r.wal
           /\ wal_file' = r.file
           /\ stable' = r.stable
           /\ ret' = r.err
    /\ checkpoint_file' = pc_state_serialize(state)
    /\ appended' = Append(appended, wal.current_sequence)
    /\ call' = "checkpoint"
    /\ UNCHANGED <<corevars, clock, original, nodevars, daemonvars, pocvars, extvars>>

\* pc_wal_sync_marker(&wal)
SyncMarker(syncOK) ==
    /\ wal.file
    /\ Len(appended) < MaxEntries
    /\ LET r == pc_wal_sync_marker(wal, wal_file, stable, clock, syncOK)
       IN  /\ wal' = r.wal
           /\ wal_file' = r.file
           /\ stable' = r.stable
           /\ ret' = r.err
    /\ appended' = Append(appended, wal.current_sequence)
    /\ call' = "sync_marker"
    /\ UNCHANGED <<corevars, clock, checkpoint_file, original, nodevars, daemonvars, pocvars, extvars>>

\* pc_wal_truncate(&wal)
Truncate(syncOK) ==
    /\ wal.file
    /\ LET r == pc_wal_truncate(wal, wal_file, stable, syncOK)
       IN  /\ wal' = r.wal
           /\ wal_file' = r.file
           /\ stable' = r.stable
           /\ ret' = r.err
    /\ call' = "truncate"
    /\ UNCHANGED <<corevars, clock, checkpoint_file, appended, original,
                   nodevars, daemonvars, pocvars, extvars>>

\* pc_wal_set_sync_mode(&wal, sync_on_write)
SetSyncMode(sync_on_write) ==
    /\ wal.file
    /\ wal.sync_on_write # sync_on_write
    /\ wal' = pc_wal_set_sync_mode(wal, sync_on_write)
    /\ call' = "set_sync_mode"
    /\ ret' = PC_OK
    /\ UNCHANGED <<corevars, clock, wal_file, stable, checkpoint_file, appended,
                   original, nodevars, daemonvars, pocvars, extvars>>

\* Graceful shutdown: pc_wal_close(&wal), pc_state_free(&state).
\* The model follows a node through one restart.
Close(syncOK) ==
    /\ wal.file
    /\ call # "close" /\ original = ZeroState
    /\ LET r == pc_wal_close(wal, wal_file, stable, syncOK)
       IN  /\ wal' = r.wal
           /\ wal_file' = r.file
           /\ stable' = r.stable
    /\ original' = state
    /\ state' = ZeroState
    /\ has_state' = FALSE
    /\ call' = "close"
    /\ ret' = PC_OK
    /\ UNCHANGED <<genesis_supply, clock, checkpoint_file, appended, nodevars, daemonvars, pocvars, extvars>>

\* The node dies with the WAL open.  Memory is lost; of the file, what
\* stable storage holds survives, and any more of what was written may.
\* The model follows a node through one restart.
Crash ==
    /\ wal.file
    /\ call # "crash" /\ original = ZeroState
    /\ \E k \in stable.entries..Len(wal_file.entries),
          h \in {stable.header, wal_file.header} :
          /\ wal_file' = [header |-> h, entries |-> SubSeq(wal_file.entries, 1, k)]
          /\ stable' = [header |-> h, entries |-> k]
    /\ wal' = ZeroWal
    /\ original' = state
    /\ state' = ZeroState
    /\ has_state' = FALSE
    /\ call' = "crash"
    /\ ret' = PC_OK
    /\ UNCHANGED <<genesis_supply, clock, checkpoint_file, appended, nodevars, daemonvars, pocvars, extvars>>

\* pc_wal_recover(&wal, &state) into the zeroed state of a restarted node.
Recover ==
    /\ wal.file
    /\ ~has_state
    /\ call = "wal_init"
    /\ LET r == pc_wal_recover(wal, wal_file, checkpoint_file, state, clock)
       IN  /\ state' = r.st
           /\ ret' = r.err
           /\ has_state' = (r.st.wallets # <<>>)
    /\ call' = "recover"
    /\ UNCHANGED <<genesis_supply, clock, walvars, nodevars, daemonvars, pocvars, extvars>>

\* The node is down: time passes before it is restarted.
Downtime == ~wal.file /\ Tick

\* Every operation of the WAL, with syncs that succeed or fail, on a log of
\* at most MaxWalEntries entries.
ShortLog == Len(appended) < MaxWalEntries

NextWal ==
    \/ \E ok \in BOOLEAN : WalInit(ok)
    \/ \E supply \in WalSupplies, ok \in BOOLEAN :
          ShortLog /\ LoggedGenesis(supply, ok)
    \/ \E tx \in NextTransfers(state, {Founder}), ok \in BOOLEAN :
          ShortLog /\ LoggedExecute(tx, ok)
    \/ \E ok \in BOOLEAN : ShortLog /\ Checkpoint(ok)
    \/ \E ok \in BOOLEAN : ShortLog /\ SyncMarker(ok)
    \/ \E ok \in BOOLEAN : Truncate(ok)
    \/ \E b \in BOOLEAN : SetSyncMode(b)
    \/ \E ok \in BOOLEAN : Close(ok)
    \/ Crash
    \/ Recover
    \/ Downtime

SpecWal == Init /\ [][NextWal]_vars

\* The crash-recovery scenario's operations on a disk whose syncs succeed,
\* in the default sync mode.
NextRecovery ==
    \/ WalInit(TRUE)
    \/ \E supply \in WalSupplies : LoggedGenesis(supply, TRUE)
    \/ \E tx \in NextTransfers(state, KeyStore) : LoggedExecute(tx, TRUE)
    \/ Checkpoint(TRUE)
    \/ Crash
    \/ Recover
    \/ Downtime

SpecRecovery == Init /\ [][NextRecovery]_vars

\* The node of the checkpoint procedure: a checkpoint is followed at once
\* by pc_wal_truncate, and the node logs and executes transfers before and
\* after it, is shut down or dies, and recovers.
NextTruncate ==
    \/ WalInit(TRUE)
    \/ \E supply \in WalSupplies : LoggedGenesis(supply, TRUE)
    \/ \E tx \in NextTransfers(state, {Founder}) : LoggedExecute(tx, TRUE)
    \/ Checkpoint(TRUE)
    \/ call = "checkpoint" /\ Truncate(TRUE)
    \/ Close(TRUE)
    \/ Crash
    \/ Recover
    \/ Downtime

SpecTruncate == Init /\ [][NextTruncate]_vars


\* A payload of the file with bits flipped while no process has the log
\* open: a supply or an amount reads back as another number, a checkpoint's
\* hash as another hash. The entry's header, its checksum included, is
\* intact.
Damaged(entry) ==
    IF entry.type = WAL_ENTRY_GENESIS
    THEN [entry EXCEPT !.payload.supply = @ + 1]
    ELSE IF entry.type = WAL_ENTRY_TX
    THEN [entry EXCEPT !.payload.amount = @ + 1]
    ELSE [entry EXCEPT !.payload = <<"damaged", @>>]

\* The checksum of an entry's header is the one its payload was written
\* with: the SHA-256 of the payload, or, in a checkpoint entry, the state
\* hash that is the payload.
PayloadIntact(entry) ==
    IF entry.type = WAL_ENTRY_CHECKPOINT
    THEN entry.payload = entry.checksum
    ELSE compute_checksum(entry.payload) = entry.checksum

Corrupt(i) ==
    /\ ~wal.file
    /\ call = "crash"
    /\ i \in 1..Len(wal_file.entries)
    /\ PayloadIntact(wal_file.entries[i])
    /\ wal_file' = [wal_file EXCEPT !.entries[i] = Damaged(@)]
    /\ UNCHANGED <<corevars, call, ret, clock, wal, stable, checkpoint_file,
                   appended, original, nodevars, daemonvars, pocvars, extvars>>

NextCorrupt ==
    \/ WalInit(TRUE)
    \/ \E supply \in WalSupplies : LoggedGenesis(supply, TRUE)
    \/ \E tx \in NextTransfers(state, KeyStore) : LoggedExecute(tx, TRUE)
    \/ Checkpoint(TRUE)
    \/ Crash
    \/ \E i \in 1..MaxEntries : Corrupt(i)
    \/ Recover
    \/ Downtime

SpecCorrupt == Init /\ [][NextCorrupt]_vars

(***************************************************************************)
(* node.c: the daemon's handling of a transaction message                  *)
(***************************************************************************)
MAX_STATE_VALIDATORS == 10

\* The supply of the daemon's genesis (1000000.0 in the source), as a value
\* of the modelled format.
DaemonSupplies == {3}

\* is_trusted_validator and pc_node_add_validator, on the trusted entries of
\* node->trusted_validators
is_trusted_validator(trusted, pubkey) ==
    IF \E i \in 1..Len(trusted) : trusted[i] = pubkey THEN 1 ELSE 0

pc_node_add_validator(trusted, pubkey) ==
    IF Len(trusted) >= MAX_STATE_VALIDATORS THEN trusted
    ELSE Append(trusted, pubkey)

\* The state part of pc_node_init: pc_state_load of state.pcs, or a genesis
\* to the node's own wallet that is saved there; the node then trusts itself
\* as a validator.
NodeInit(supply) ==
    /\ ~has_state
    /\ LET g == pc_state_genesis(state, Founder, supply, clock)
       IN  IF state_file # NoFile
           THEN /\ state' = pc_state_deserialize(state, state_file)
                /\ UNCHANGED <<state_file, genesis_supply>>
           ELSE /\ state' = g.st
                /\ state_file' = pc_state_serialize(g.st)
                /\ genesis_supply' = supply
    /\ has_state' = TRUE
    /\ trusted_validators' = pc_node_add_validator(trusted_validators, Founder)
    /\ call' = "node_init"
    /\ ret' = PC_OK
    /\ UNCHANGED <<clock, walvars, nodevars, accepted, violations, pocvars,
                   shardvars, syncvars, peer, sig_headers, handled,
                   netvars, stakevars>>

\* handle_tx(node, peer, data, len) on a message that holds a PCTransaction.
\* node_run is the only thread that handles messages, and it holds
\* state_lock around pc_state_execute_tx.
HandleTx(tx) ==
    /\ has_state
    /\ NoncesBelowCap(state)
    /\ pc_transaction_verify(tx) # PC_OK => violations < MaxBadTx
    /\ LET e == pc_state_execute_tx(state, tx, clock, FALSE)
       IN  IF pc_transaction_verify(tx) # PC_OK
           THEN /\ violations' = violations + 1
                /\ ret' = pc_transaction_verify(tx)
                /\ UNCHANGED <<state, accepted>>
           ELSE /\ state' = e.st
                /\ ret' = e.err
                /\ accepted' = IF e.err = PC_OK THEN Append(accepted, tx)
                               ELSE accepted
                /\ UNCHANGED violations
    /\ call' = "handle_tx"
    /\ UNCHANGED <<has_state, genesis_supply, clock, walvars, nodevars,
                   state_file, pocvars, extvars>>

NextDaemon ==
    \/ \E supply \in DaemonSupplies : NodeInit(supply)
    \/ \E tx \in TxInputs : HandleTx(tx)
    \/ Tick

SpecDaemon == Init /\ [][NextDaemon]_vars

(***************************************************************************)
(* A validator node running the consensus                                  *)
(***************************************************************************)
\* The ledger states that proposals are about: a genesis, the states after
\* one and two transfers, and the genesis with a wallet minted on top.
PocGenesis == pc_state_genesis(ZeroState, Founder, 3, 0).st
PocAfter1 ==
    pc_state_execute_tx(PocGenesis, ClientTx(1, 2, 1, 0, 1, FALSE), 0, FALSE).st
PocAfter2 ==
    pc_state_execute_tx(PocAfter1, ClientTx(1, 2, 1, 1, 1, FALSE), 0, FALSE).st

\* The consensus has been initialized.
PocReady == call # "none"

\* poc_init(&consensus) at the start of the process
PocInit ==
    /\ call = "none"
    /\ poc' = poc_init(clock)
    /\ call' = "poc_init"
    /\ ret' = PC_OK
    /\ UNCHANGED <<corevars, clock, walvars, nodevars, daemonvars, poc_file,
                   finalized, received, replicas, delivered, extvars>>

\* poc_add_validator(&consensus, pubkey, name); the operator registers the
\* validators in the order of their keys.
AddValidator(pubkey) ==
    /\ PocReady
    /\ pubkey <= Len(poc.validators) + 1
    /\ LET r == poc_add_validator(poc, pubkey, clock)
       IN  /\ poc' = r.c
           /\ ret' = r.err
    /\ call' = "add_validator"
    /\ UNCHANGED <<corevars, clock, walvars, nodevars, daemonvars, poc_file,
                   finalized, received, replicas, delivered, extvars>>

\* poc_remove_validator(&consensus, pubkey)
RemoveValidator(pubkey) ==
    /\ PocReady
    /\ LET r == poc_remove_validator(poc, pubkey)
       IN  /\ poc' = r.c
           /\ ret' = r.err
    /\ call' = "remove_validator"
    /\ UNCHANGED <<corevars, clock, walvars, nodevars, daemonvars, poc_file,
                   finalized, received, replicas, delivered, extvars>>

\* poc_set_local_validator(&consensus, kp.public_key, kp.secret_key)
SetLocalValidator(kp) ==
    /\ PocReady
    /\ poc' = poc_set_local_validator(poc, kp, kp)
    /\ call' = "set_local_validator"
    /\ ret' = PC_OK
    /\ UNCHANGED <<corevars, clock, walvars, nodevars, daemonvars, poc_file,
                   finalized, received, replicas, delivered, extvars>>

RECURSIVE TotalProposals(_)
\* The proposals made so far: the sum of the validators' proposals counters.
TotalProposals(vs) ==
    IF vs = <<>> THEN 0 ELSE Head(vs).proposals + TotalProposals(Tail(vs))

\* Every registered validator is active.
AllActive(c) == \A i \in 1..Len(c.validators) : c.validators[i].active

\* poc_propose_transition(&consensus, &before, &after, &proposer)
Propose(before, after, proposer) ==
    /\ PocReady
    /\ TotalProposals(poc.validators) < MaxProposals
    /\ LET r == poc_propose_transition(poc, before, after, proposer, clock)
       IN  /\ poc' = r.c
           /\ ret' = r.err
    /\ call' = "propose"
    /\ UNCHANGED <<corevars, clock, walvars, nodevars, daemonvars, poc_file,
                   finalized, received, replicas, delivered, extvars>>

\* poc_vote(&consensus, vote_type, reason)
Vote(vote_type) ==
    /\ PocReady
    /\ LET r == poc_vote(poc, vote_type, clock)
       IN  /\ poc' = r.c
           /\ ret' = r.err
    /\ call' = "vote"
    /\ UNCHANGED <<corevars, clock, walvars, nodevars, daemonvars, poc_file,
                   finalized, received, replicas, delivered, extvars>>

\* A vote on the proposal c holds, cast by validator and signed with the
\* secret key of signer.
SignedVote(c, validator, signer, vote_type) ==
    [LocalVote([c EXCEPT !.local_pubkey = validator, !.local_secret = signer],
               vote_type, 0)
     EXCEPT !.timestamp = 0]

\* The votes that arrive from the network: of validators 2 and 3 and of an
\* outsider, and one whose signature is another validator's.
VoteMessages(c) ==
    {SignedVote(c, k, k, v) :
        k \in {2, 3, Outsider}, v \in {POC_VOTE_APPROVE, POC_VOTE_REJECT}}
    \cup {SignedVote(c, 2, 3, POC_VOTE_APPROVE)}

\* poc_receive_vote(&consensus, &vote)
ReceiveVote(vote) ==
    /\ PocReady
    /\ poc.has_proposal
    /\ LET r == poc_receive_vote(poc, vote)
       IN  /\ poc' = r.c
           /\ ret' = r.err
    /\ call' = "receive_vote"
    /\ UNCHANGED <<corevars, clock, walvars, nodevars, daemonvars, poc_file,
                   finalized, received, replicas, delivered, extvars>>

\* poc_finalize(&consensus, &state), which saves the consensus on success.
Finalize ==
    /\ PocReady
    /\ LET r == poc_finalize(poc, clock)
       IN  /\ poc' = r.c
           /\ ret' = r.err
           /\ poc_file' = IF r.err = PC_OK THEN poc_save(r.c) ELSE poc_file
           /\ finalized' = IF r.err = PC_OK
                           THEN Append(finalized, poc.current_proposal)
                           ELSE finalized
    /\ call' = "finalize"
    /\ UNCHANGED <<corevars, clock, walvars, nodevars, daemonvars, received,
                   replicas, delivered, extvars>>

\* poc_next_round(&consensus)
NextRound ==
    /\ PocReady
    /\ poc.current_round < MaxRound
    /\ poc' = poc_next_round(poc, clock)
    /\ call' = "next_round"
    /\ ret' = PC_OK
    /\ UNCHANGED <<corevars, clock, walvars, nodevars, daemonvars, poc_file,
                   finalized, received, replicas, delivered, extvars>>

\* The approval of validator 2 that arrives from the network.
ApprovalMessages(c) == {SignedVote(c, 2, 2, POC_VOTE_APPROVE)}

\* The operator has registered the first three validators: the consensus
\* operates.
Operating == Len(poc.validators) >= 3

\* Proposals made, voted on and finalized while the fourth validator comes
\* and one of the validators goes.
NextChain ==
    \/ PocInit
    \/ \E k \in ValidatorKeys : AddValidator(k)
    \/ \E k \in ValidatorKeys :
          Operating /\ AllActive(poc) /\ RemoveValidator(k)
    \/ Operating /\ SetLocalValidator(1)
    \/ \E tr \in {<<PocGenesis, PocAfter1>>, <<PocAfter1, PocAfter2>>},
          k \in ValidatorKeys : Operating /\ Propose(tr[1], tr[2], k)
    \/ Operating /\ Vote(POC_VOTE_APPROVE)
    \/ \E vote \in ApprovalMessages(poc) : Operating /\ ReceiveVote(vote)
    \/ Operating /\ Finalize
    \/ Operating /\ NextRound

SpecChain == Init /\ [][NextChain]_vars

\* The votes on the proposals of one height, cast locally and received,
\* while the fourth validator comes and one of the validators goes.
NextVoting ==
    \/ PocInit
    \/ \E k \in ValidatorKeys : AddValidator(k)
    \/ \E k \in ValidatorKeys :
          Operating /\ AllActive(poc) /\ RemoveValidator(k)
    \/ \E k \in {1, Outsider} : Operating /\ SetLocalValidator(k)
    \/ \E k \in ValidatorKeys :
          Operating /\ Propose(PocGenesis, PocAfter1, k)
    \/ \E v \in {POC_VOTE_APPROVE, POC_VOTE_REJECT, POC_VOTE_ABSTAIN} :
          Operating /\ Vote(v)
    \/ \E vote \in VoteMessages(poc) : Operating /\ ReceiveVote(vote)

SpecVoting == Init /\ [][NextVoting]_vars

RECURSIVE AddValidators(_, _)
\* poc_add_validator for the keys 1..n, in that order
AddValidators(c, n) ==
    IF n = 0 THEN c ELSE poc_add_validator(AddValidators(c, n - 1), n, 0).c

\* A consensus of n validators in which validator 1, the first leader, has
\* proposed the transition from the genesis state and approved it.
PendingConsensus(n) ==
    poc_propose_transition(
        poc_set_local_validator(AddValidators(poc_init(0), n), 1, 1),
        PocGenesis, PocAfter1, 1, 0).c

\* Two runs of the consensus start from the same pending proposal.
StartReplicas(n) ==
    /\ \A r \in Replicas : ~replicas[r].has_proposal
    /\ replicas' = [r \in Replicas |-> PendingConsensus(n)]
    /\ call' = "propose"
    /\ ret' = PC_OK
    /\ UNCHANGED <<corevars, clock, walvars, nodevars, daemonvars, poc,
                   poc_file, finalized, received, delivered, extvars>>

\* The signed votes in flight to the replicas: an approval and a rejection
\* of each of validators 2 and 3, and the approval of an outsider.
TallyMessages(c) ==
    {SignedVote(c, k, k, v) :
        k \in {2, 3}, v \in {POC_VOTE_APPROVE, POC_VOTE_REJECT}}
    \cup {SignedVote(c, Outsider, Outsider, POC_VOTE_APPROVE)}

\* Replica r takes vote off the network: poc_receive_vote(&consensus, &vote)
Deliver(r, vote) ==
    /\ replicas[r].has_proposal
    /\ Len(delivered[r]) < MaxDeliveries
    /\ LET res == poc_receive_vote(replicas[r], vote)
       IN  /\ replicas' = [replicas EXCEPT ![r] = res.c]
           /\ ret' = res.err
    /\ delivered' = [delivered EXCEPT ![r] = Append(@, vote)]
    /\ call' = "receive_vote"
    /\ UNCHANGED <<corevars, clock, walvars, nodevars, daemonvars, poc,
                   poc_file, finalized, received, extvars>>

\* The same votes delivered to two runs in any order.
NextTally ==
    \/ \E n \in {3, 4} : StartReplicas(n)
    \/ \E r \in Replicas :
          \E vote \in TallyMessages(replicas[r]) : Deliver(r, vote)

SpecTally == Init /\ [][NextTally]_vars

\* The proposal p as it leaves a node that signs it with the key of signer.
SignedProposal(p, signer) ==
    [p EXCEPT !.proposer_sig = Ed25519(signer, poc_hash_proposal(p))]

\* The proposals that arrive from the network for the height after c's: the
\* fields of a POCProposal are the sender's choice, and a double read off
\* the wire may be a NaN.
ProposalMessages(c) ==
    {SignedProposal([ZeroProposal EXCEPT
                        !.sequence_num = c.current_height + seq,
                        !.round = c.current_round,
                        !.prev_state_hash = before.state_hash,
                        !.new_state_hash = PocAfter2.state_hash,
                        !.total_supply = supply,
                        !.delta_sum = delta,
                        !.proposer_pubkey = proposer], signer) :
        seq \in {0, 1},
        before \in {PocGenesis, PocAfter1},
        supply \in {Double(PocGenesis.total_supply),
                    Double(PocGenesis.total_supply + 1), NaN},
        delta \in {Double(0), Double(1), NaN},
        proposer \in {1, Outsider},
        signer \in {1, 2}}

\* poc_validate_proposal(&consensus, &proposal, &current_state) on a
\* proposal taken off the network
ValidateProposal(proposal, current_state) ==
    /\ PocReady
    /\ received' = [proposal |-> proposal, current_state |-> current_state]
    /\ ret' = poc_validate_proposal(poc, proposal, current_state)
    /\ call' = "validate_proposal"
    /\ UNCHANGED <<corevars, clock, walvars, nodevars, daemonvars, poc,
                   poc_file, finalized, replicas, delivered, extvars>>

\* Proposals are validated while validators come and one of them goes.
NextValidate ==
    \/ PocInit
    \/ \E k \in ValidatorKeys : AddValidator(k)
    \/ \E k \in ValidatorKeys :
          Operating /\ AllActive(poc) /\ RemoveValidator(k)
    \/ \E proposal \in ProposalMessages(poc),
          current_state \in {PocGenesis, PocAfter1} :
          ValidateProposal(proposal, current_state)

SpecValidate == Init /\ [][NextValidate]_vars

(***************************************************************************)
(* Actions of the cross-shard locks and of the sharded network             *)
(***************************************************************************)
\* Time passes while locks are held: just short of a lock's life, or all of
\* it.
Elapse(d) ==
    /\ PocReady
    /\ clock + d <= MaxClock
    /\ clock' = clock + d
    /\ UNCHANGED <<corevars, call, ret, walvars, nodevars, daemonvars, pocvars,
                   extvars>>

\* poc_acquire_lock(&consensus, sender, amount, source_shard, target_shard)
AcquireLock(sender, amount, target) ==
    /\ PocReady
    /\ LET r == poc_acquire_lock(poc, sender, amount,
                                 get_shard_for_wallet(sender),
                                 get_shard_for_wallet(target), clock)
       IN  /\ poc' = r.c
           /\ ret' = r.err
    /\ call' = "acquire_lock"
    /\ UNCHANGED <<corevars, clock, walvars, nodevars, daemonvars, poc_file,
                   finalized, received, replicas, delivered, extvars>>

\* poc_release_lock(&consensus, lock_hash)
ReleaseLock(lock_hash) ==
    /\ PocReady
    /\ LET r == poc_release_lock(poc, lock_hash)
       IN  /\ poc' = r.c
           /\ ret' = r.err
    /\ call' = "release_lock"
    /\ UNCHANGED <<corevars, clock, walvars, nodevars, daemonvars, poc_file,
                   finalized, received, replicas, delivered, extvars>>

\* The lock hashes a caller passes to poc_release_lock: those of the locks
\* in the table, and one of no lock.
LockHashes(c) ==
    {c.pending_locks[i].lock_hash : i \in 1..Len(c.pending_locks)}
    \cup {LockHash(Outsider, 0, 0, 0, 0)}

\* Locks taken, released and left to expire by two senders.
NextLocks ==
    \/ PocInit
    \/ \E d \in {LOCK_EXPIRY - 1, LOCK_EXPIRY} : Elapse(d)
    \/ \E sender \in KeyStore : AcquireLock(sender, 1, 3)
    \/ \E h \in LockHashes(poc) : ReleaseLock(h)

SpecLocks == Init /\ [][NextLocks]_vars

\* The sharded network runs.
ShardingReady == network.num_shards # 0 /\ ~crashed

\* Whether every nonce of every shard is below the cap of the model.
ShardNoncesBelowCap(n) ==
    \A i \in ShardIds : NoncesBelowCap(n.shards[i].local_state)

\* pc_sharding_init(&network, initial_supply)
ShardingInit(initial_supply) ==
    /\ PocReady
    /\ network.num_shards = 0
    /\ network' = pc_sharding_init(initial_supply, clock)
    /\ call' = "sharding_init"
    /\ ret' = PC_OK
    /\ UNCHANGED <<corevars, clock, walvars, nodevars, daemonvars, pocvars,
                   shard_tx, crashed, syncvars,
                   peervars, netvars, stakevars>>

\* pc_sharding_create_wallet(&network, pubkey, balance)
ShardingCreateWallet(pubkey, balance) ==
    /\ ShardingReady
    /\ \E nomem \in BOOLEAN :
          LET r == pc_sharding_create_wallet(network, pubkey, balance, nomem)
          IN  /\ network' = r.network
              /\ ret' = r.err
    /\ call' = "sharding_create_wallet"
    /\ UNCHANGED <<corevars, clock, walvars, nodevars, daemonvars, pocvars,
                   shard_tx, crashed, syncvars,
                   peervars, netvars, stakevars>>

\* pc_sharding_execute_intra_tx(&network, &tx)
ExecuteIntraTx(tx) ==
    /\ ShardingReady
    /\ ShardNoncesBelowCap(network)
    /\ \E moved \in ReallocMoves(
                       network.shards[get_shard_for_wallet(tx.from)].local_state) :
          LET r == pc_sharding_execute_intra_tx(network, tx, clock, moved)
          IN  /\ network' = r.network
              /\ ret' = r.err
    /\ shard_tx' = tx
    /\ call' = "intra_tx"
    /\ UNCHANGED <<corevars, clock, walvars, nodevars, daemonvars, pocvars,
                   crashed, syncvars,
                   peervars, netvars, stakevars>>

\* pc_sharding_execute_cross_tx(&network, &tx)
ExecuteCrossTx(tx) ==
    /\ ShardingReady
    /\ ShardNoncesBelowCap(network)
    /\ \E nomem \in BOOLEAN :
          LET r == pc_sharding_execute_cross_tx(network, tx, nomem)
          IN  /\ network' = r.network
              /\ ret' = r.err
              /\ crashed' = (r.err = SIGSEGV)
    /\ shard_tx' = tx
    /\ call' = "cross_tx"
    /\ UNCHANGED <<corevars, clock, walvars, nodevars, daemonvars, pocvars,
                   syncvars,
                   peervars, netvars, stakevars>>

\* The nonce of pubkey's wallet in its shard, 0 when it has none.
ShardNonce(n, pubkey) ==
    LET Of(st) == IF pc_state_get_wallet(st, pubkey) = 0 THEN 0
                  ELSE NonceOf(st, pubkey)
    IN  Of(n.shards[get_shard_for_wallet(pubkey)].local_state)

\* The transfers submitted to the sharded network: of one coin, signed by
\* the sender with its current nonce.
ShardTransfers(n) ==
    {tx \in {ClientTx(f, t, 1, ShardNonce(n, f), f, FALSE) :
                f \in KeyStore, t \in Keys} :
        tx.from # tx.to}

\* The wallets created in the shards and their balances.
ShardWallets == {<<1, 3>>, <<1, Pow2(MantBits) + 2>>, <<2, 0>>}

\* A node that keeps the lock table and the sharded network: wallets are
\* created, senders take locks, transfers run within and across shards.
NextShard ==
    \/ PocInit
    \/ ShardingInit(Pow2(MantBits) + 5)
    \/ \E w \in ShardWallets : ShardingCreateWallet(w[1], w[2])
    \/ \E tx \in ShardTransfers(network) : ExecuteIntraTx(tx)
    \/ \E tx \in ShardTransfers(network) : ExecuteCrossTx(tx)
    \/ ShardingReady /\ Elapse(LOCK_EXPIRY)
    \/ ShardingReady /\ AcquireLock(1, 1, 2)

SpecShard == Init /\ [][NextShard]_vars

\* Transfers a client of the sharded network can submit besides the valid
\* ones: a signed transfer whose nonce stays 0, the same transfer without
\* a signature, and a signed transfer of nothing.
CrossInputs ==
    {ClientTx(1, 2, 1, 0, 1, FALSE), RawTx(1, 2, 1, 0),
     ClientTx(1, 2, 0, 0, 1, FALSE)}

NextCross ==
    \/ PocInit
    \/ ShardingInit(Pow2(MantBits) + 5)
    \/ \E w \in ShardWallets : ShardingCreateWallet(w[1], w[2])
    \/ \E tx \in ShardTransfers(network) : ExecuteIntraTx(tx)
    \/ \E tx \in CrossInputs : ExecuteCrossTx(tx)

SpecCross == Init /\ [][NextCross]_vars

(***************************************************************************)
(* Actions of a light client that follows the ledger by deltas             *)
(***************************************************************************)
\* The light client starts from a copy of the ledger's state.
ClientFetch ==
    /\ has_state
    /\ client = ZeroState
    /\ client' = state
    /\ call' = "client_fetch"
    /\ ret' = PC_OK
    /\ UNCHANGED <<corevars, clock, walvars, nodevars, daemonvars, pocvars,
                   shardvars, delta_msg, client_failed,
                   peervars, netvars, stakevars>>

\* pc_delta_apply(&client, &delta); a client whose call failed stops.
ApplyDelta(delta) ==
    /\ client # ZeroState
    /\ ~client_failed
    /\ LET r == pc_delta_apply(client, delta)
       IN  /\ client' = r.st
           /\ ret' = r.err
           /\ client_failed' = (r.err # PC_OK)
    /\ delta_msg' = delta
    /\ call' = "delta_apply"
    /\ UNCHANGED <<corevars, clock, walvars, nodevars, daemonvars, pocvars,
                   shardvars,
                   peervars, netvars, stakevars>>

\* The delta a full node computes for the client: pc_delta_compute from the
\* client's state to the ledger's.
HonestDelta == pc_delta_compute(client, state)

\* The deltas a peer can send instead: one field of the honest delta changed.
TamperedDeltas(d) ==
    {[d EXCEPT !.new_hash = ZeroHash],
     [d EXCEPT !.prev_hash = ZeroHash],
     [d EXCEPT !.total_supply = @ + 1],
     [d EXCEPT !.new_timestamp = @ + 1]}
    \cup {[d EXCEPT !.changes[i].new_balance = -1] : i \in 1..Len(d.changes)}
    \cup {[d EXCEPT !.changes[i].new_balance = @ + 1] : i \in 1..Len(d.changes)}
    \cup {[d EXCEPT !.changes[i].new_nonce = @ + 1] : i \in 1..Len(d.changes)}

\* The transfers and account creations of the ledger.
LedgerStep ==
    \/ Genesis(Founder, 3)
    \/ \E tx \in NextTransfers(state, KeyStore) : Execute(tx)
    \/ CreateWallet(3, 0)

\* A ledger and a light client that is sent the honest deltas.
NextDelta ==
    \/ LedgerStep
    \/ ClientFetch
    \/ ApplyDelta(HonestDelta)

SpecDelta == Init /\ [][NextDelta]_vars

\* The same where the peer may tamper with the deltas.
NextTamper ==
    \/ LedgerStep
    \/ ClientFetch
    \/ ApplyDelta(HonestDelta)
    \/ \E delta \in TamperedDeltas(HonestDelta) : ApplyDelta(delta)

SpecTamper == Init /\ [][NextTamper]_vars

(***************************************************************************)
(* node.c: messages from a peer, rate limits, bans and state sync          *)
(***************************************************************************)
MAX_MSG_PER_MINUTE == 100
MAX_TX_PER_MINUTE == 50
MAX_VIOLATIONS == 5
BAN_DURATION == 3600
\* The length in seconds of the window of check_rate_limit.
RATE_WINDOW == 60

MSG_VERSION == "MSG_VERSION"
MSG_STATE == "MSG_STATE"
MSG_TX == "MSG_TX"
MSG_DELTA == "MSG_DELTA"
MSG_PING == "MSG_PING"
MSG_STATE_SIG == "MSG_STATE_SIG"

\* A message as node_recv_message hands it over: `short` says that
\* header->length is below the size of the structure the handler reads.
Message(type, data) == [type |-> type, short |-> FALSE, data |-> data]
ShortMessage(type) == [type |-> type, short |-> TRUE, data |-> [len |-> 0]]

\* The bytes a PCSignedStateHeader's signature covers.
SignedStateMessage(h) == <<h.state_hash, h.version, h.timestamp>>

\* verify_state_signature: static, marked unused, and called by no handler.
verify_state_signature(signed_state, st) ==
    IF ~Ed25519Verify(signed_state.signature, SignedStateMessage(signed_state),
                      signed_state.validator_pubkey)
    THEN 0
    ELSE IF signed_state.state_hash # st.state_hash THEN 0
    ELSE 1

Violation(p) == [p EXCEPT !.violations = @ + 1]

\* handle_version
handle_version(trusted, p, msg) ==
    IF msg.short THEN p
    ELSE [p EXCEPT !.node_pubkey = msg.data.node_pubkey,
                   !.is_validator =
                       is_trusted_validator(trusted, msg.data.node_pubkey)]

\* handle_signed_state: the key the header names becomes the peer's key; the
\* signature is not looked at.
handle_signed_state(p, msg) ==
    IF msg.short THEN Violation(p)
    ELSE [p EXCEPT !.node_pubkey = msg.data.validator_pubkey]

\* handle_state
handle_state(st, trusted, p, msg) ==
    LET Checked(new_state) ==
            IF new_state.version <= st.version
            THEN [st |-> st, peer |-> p]
            ELSE IF pc_state_verify_conservation(new_state) # PC_OK
            THEN [st |-> st, peer |-> Violation(p)]
            ELSE IF /\ st.version > 0 /\ Len(trusted) > 0
                    /\ p.is_validator = 0
                    /\ is_trusted_validator(trusted, p.node_pubkey) = 0
            THEN [st |-> st, peer |-> p]
            ELSE IF /\ st.total_supply > 0
                    /\ ExceedsTolerance(new_state.total_supply - st.total_supply)
            THEN [st |-> st, peer |-> Violation(p)]
            ELSE [st |-> new_state, peer |-> p]
    IN  IF msg.short THEN [st |-> st, peer |-> Violation(p)]
        ELSE Checked(pc_state_deserialize(ZeroState, msg.data))

\* handle_tx
handle_tx(st, p, msg, now) ==
    IF msg.short THEN [st |-> st, peer |-> Violation(p)]
    ELSE IF pc_transaction_verify(msg.data) # PC_OK
    THEN [st |-> st, peer |-> Violation(p)]
    ELSE [st |-> pc_state_execute_tx(st, msg.data, now, FALSE).st, peer |-> p]

\* ban_peer: the connection is closed
ban_peer(p, permanent, now) ==
    [p EXCEPT !.banned = 1,
              !.ban_until = IF permanent THEN 0 ELSE now + BAN_DURATION,
              !.connected = FALSE]

\* check_rate_limit
check_rate_limit(p, now) ==
    LET Counted(q) ==
            IF q.msg_count > MAX_MSG_PER_MINUTE
            THEN [peer |-> IF q.violations + 1 >= MAX_VIOLATIONS
                           THEN ban_peer(Violation(q), FALSE, now)
                           ELSE Violation(q),
                  rc |-> -1]
            ELSE [peer |-> q, rc |-> 0]
        Window(q) == Counted([q EXCEPT !.msg_count = @ + 1])
    IN  IF now >= p.rate_reset
        THEN Window([p EXCEPT !.msg_count = 0, !.tx_count = 0,
                              !.rate_reset = now + RATE_WINDOW])
        ELSE Window(p)

\* handle_message
handle_message(st, trusted, p, msg, now) ==
    LET Dropped(q) == [st |-> st, peer |-> q, handled |-> FALSE]
        Handled(r) == [st |-> r.st, peer |-> r.peer, handled |-> TRUE]
        Switch(q) ==
            IF msg.type = MSG_VERSION
            THEN Handled([st |-> st, peer |-> handle_version(trusted, q, msg)])
            ELSE IF msg.type = MSG_STATE_SIG
            THEN Handled([st |-> st, peer |-> handle_signed_state(q, msg)])
            ELSE IF msg.type = MSG_STATE
            THEN Handled(handle_state(st, trusted, q, msg))
            ELSE IF msg.type = MSG_TX
            THEN Handled(handle_tx(st, q, msg, now))
            ELSE IF msg.type = MSG_PING
            THEN Handled([st |-> st, peer |-> q])
            ELSE Handled([st |-> st,
                          peer |-> IF q.violations + 1 >= MAX_VIOLATIONS
                                   THEN ban_peer(Violation(q), TRUE, now)
                                   ELSE Violation(q)])
        TxCounted(q) ==
            IF q.tx_count > MAX_TX_PER_MINUTE THEN Dropped(Violation(q))
            ELSE Switch(q)
        Limited(r) ==
            IF r.rc # 0 THEN Dropped(r.peer)
            ELSE IF msg.type = MSG_TX
            THEN TxCounted([r.peer EXCEPT !.tx_count = @ + 1])
            ELSE Switch(r.peer)
    IN  IF p.banned # 0
        THEN IF p.ban_until # 0 /\ now >= p.ban_until
             THEN Limited(check_rate_limit([p EXCEPT !.banned = 0,
                                                     !.violations = 0], now))
             ELSE Dropped(p)
        ELSE Limited(check_rate_limit(p, now))

\* node_run accepts a connection: the peer gets a zeroed slot.
Accept ==
    /\ has_state
    /\ ~peer.connected
    /\ peer' = [ZeroPeer EXCEPT !.connected = TRUE]
    /\ sig_headers' = {}
    /\ handled' = FALSE
    /\ call' = "accept"
    /\ ret' = PC_OK
    /\ UNCHANGED <<corevars, clock, walvars, nodevars, daemonvars, pocvars,
                   shardvars, syncvars, trusted_validators,
                   netvars, stakevars>>

\* node_run reads a message of a connected peer and calls handle_message.
Receive(msg) ==
    /\ has_state
    /\ peer.connected
    /\ peer.violations < MaxPeerViolations
    /\ NoncesBelowCap(state)
    /\ LET r == handle_message(state, trusted_validators, peer, msg, clock)
       IN  /\ state' = r.st
           /\ peer' = r.peer
           /\ handled' = r.handled
           /\ sig_headers' = IF r.handled /\ msg.type = MSG_STATE_SIG /\ ~msg.short
                             THEN sig_headers \cup {msg.data}
                             ELSE sig_headers
    /\ call' = "handle_message"
    /\ ret' = PC_OK
    /\ UNCHANGED <<has_state, genesis_supply, clock, walvars, nodevars,
                   daemonvars, pocvars, shardvars, syncvars, trusted_validators,
                   netvars, stakevars>>

\* pc_node_add_validator(node, pubkey) by the operator of the node
TrustValidator(pubkey) ==
    /\ has_state
    /\ is_trusted_validator(trusted_validators, pubkey) = 0
    /\ trusted_validators' = pc_node_add_validator(trusted_validators, pubkey)
    /\ call' = "add_validator"
    /\ ret' = PC_OK
    /\ UNCHANGED <<corevars, clock, walvars, nodevars, daemonvars, pocvars,
                   shardvars, syncvars, peer, sig_headers, handled,
                   netvars, stakevars>>

\* Time passes at the daemon.
Wait(d) ==
    /\ has_state
    /\ clock + d <= MaxPeerClock
    /\ clock' = clock + d
    /\ UNCHANGED <<corevars, call, ret, walvars, nodevars, daemonvars, pocvars,
                   extvars>>

\* What a peer sends to wear the daemon out: pings, a transaction signed by
\* another key than its sender's, a signed transaction of a key that has no
\* wallet, a truncated transaction and a message type the switch has no
\* case for.
PeerMessages ==
    {Message(MSG_PING, [len |-> 0]),
     Message(MSG_TX, ClientTx(1, 2, 1, 0, 2, FALSE)),
     Message(MSG_TX, ClientTx(2, 1, 1, 0, 2, FALSE)),
     ShortMessage(MSG_TX),
     Message(MSG_DELTA, [len |-> 0])}

NextPeer ==
    \/ \E supply \in DaemonSupplies : NodeInit(supply)
    \/ Accept
    \/ \E msg \in PeerMessages : Receive(msg)
    \/ Wait(RATE_WINDOW)

SpecPeer == Init /\ [][NextPeer]_vars

\* A PCSignedStateHeader for the state st naming `validator`, signed with
\* the key `signer`.
SignedHeader(st, validator, signer) ==
    LET h == [state_hash |-> st.state_hash, version |-> st.version,
              timestamp |-> st.timestamp, validator_pubkey |-> validator]
    IN  [state_hash |-> h.state_hash, version |-> h.version,
         timestamp |-> h.timestamp, validator_pubkey |-> validator,
         signature |-> Ed25519(signer, SignedStateMessage(h))]

\* The state a peer makes up from st: a later version in which one wallet
\* of `owner` holds `energy` of a supply of `supply`.
MadeUp(st, owner, energy, supply) ==
    pc_state_compute_hash(
        [st EXCEPT !.version = @ + 1,
                   !.wallets = <<[public_key |-> owner, energy |-> energy,
                                  nonce |-> 0]>>,
                   !.total_supply = supply])

\* The full states a peer offers to a node whose state is st: st itself,
\* and made-up states that keep the supply, break conservation, or change
\* the supply.
StateOffers(st) ==
    {st,
     MadeUp(st, Outsider, st.total_supply, st.total_supply),
     MadeUp(st, Outsider, st.total_supply + 1, st.total_supply),
     MadeUp(st, Outsider, st.total_supply + 1, st.total_supply + 1)}

\* The messages of a peer that holds the secret keys of Outsider and of
\* key 2: version messages and signed headers naming any key, the headers
\* signed with a key the peer holds.
SyncMessages(st) ==
    {Message(MSG_VERSION, [version |-> 1, node_pubkey |-> k]) :
        k \in {Founder, 2, Outsider}}
    \cup {Message(MSG_STATE_SIG, SignedHeader(o, v, k)) :
            o \in StateOffers(st), v \in {Founder, 2, Outsider},
            k \in {2, Outsider}}
    \cup {Message(MSG_STATE, pc_state_serialize(o)) : o \in StateOffers(st)}
    \cup {ShortMessage(MSG_STATE_SIG), ShortMessage(MSG_STATE)}

NextSync ==
    \/ \E supply \in DaemonSupplies : NodeInit(supply)
    \/ TrustValidator(2)
    \/ Accept
    \/ \E msg \in SyncMessages(state) :
          peer.msg_count < MaxSyncMessages /\ Receive(msg)

SpecSync == Init /\ [][NextSync]_vars

(***************************************************************************)
(* A network of validators, each running poc_consensus.c                   *)
(***************************************************************************)
\* Every honest validator starts with the same validator set and its own
\* key pair.
ClusterInit ==
    /\ call = "none"
    /\ cluster' = [v \in Honest |->
                       poc_set_local_validator(
                           AddValidators(poc_init(clock), Cardinality(ValidatorKeys)),
                           v, v)]
    /\ call' = "cluster_init"
    /\ ret' = PC_OK
    /\ UNCHANGED <<corevars, clock, walvars, nodevars, daemonvars, pocvars,
                   shardvars, syncvars, peervars, ballots, decided,
                   stakevars>>

ClusterReady == call # "none"

\* The transitions the validators propose from the genesis state: each
\* moves one coin of the founder, to a different receiver.
Transitions ==
    {PocAfter1,
     pc_state_execute_tx(PocGenesis, ClientTx(1, 3, 1, 0, 1, FALSE), 0, FALSE).st}

\* Validator v calls poc_propose_transition in its own name and broadcasts
\* the approval the call has cast.
ClusterPropose(v, after) ==
    /\ ClusterReady
    /\ cluster[v].current_height < MaxHeight
    /\ ~cluster[v].has_proposal
    /\ LET r == poc_propose_transition(cluster[v], PocGenesis, after, v, clock)
       IN  /\ cluster' = [cluster EXCEPT ![v] = r.c]
           /\ ret' = r.err
           /\ ballots' = IF r.err = PC_OK
                         THEN ballots \cup {r.c.votes[Len(r.c.votes)]}
                         ELSE ballots
    /\ call' = "propose"
    /\ UNCHANGED <<corevars, clock, walvars, nodevars, daemonvars, pocvars,
                   shardvars, syncvars, peervars, decided,
                   stakevars>>

\* The votes the Byzantine validator can send to a validator: its signed
\* approval of whatever proposal is pending at one of them.
ByzantineVotes ==
    {SignedVote(cluster[w], Byzantine, Byzantine, POC_VOTE_APPROVE) :
        w \in {x \in Honest : cluster[x].has_proposal}}

\* poc_receive_vote at validator v of a vote that reached it while a
\* proposal is pending there (poc_propose_transition empties the tally, so
\* a vote received earlier is never counted).
ClusterReceiveVote(v, vote) ==
    /\ ClusterReady
    /\ cluster[v].has_proposal
    /\ LET r == poc_receive_vote(cluster[v], vote)
       IN  /\ cluster' = [cluster EXCEPT ![v] = r.c]
           /\ ret' = r.err
    /\ call' = "receive_vote"
    /\ UNCHANGED <<corevars, clock, walvars, nodevars, daemonvars, pocvars,
                   shardvars, syncvars, peervars, ballots, decided,
                   stakevars>>

\* poc_finalize at validator v
ClusterFinalize(v) ==
    /\ ClusterReady
    /\ cluster[v].has_proposal
    /\ LET r == poc_finalize(cluster[v], clock)
       IN  /\ cluster' = [cluster EXCEPT ![v] = r.c]
           /\ ret' = r.err
           /\ decided' = IF r.err = PC_OK
                         THEN [decided EXCEPT ![v] =
                                  Append(@, cluster[v].current_proposal)]
                         ELSE decided
    /\ call' = "finalize"
    /\ UNCHANGED <<corevars, clock, walvars, nodevars, daemonvars, pocvars,
                   shardvars, syncvars, peervars, ballots,
                   stakevars>>

\* The round of validator v times out: poc_next_round
ClusterNextRound(v) ==
    /\ ClusterReady
    /\ cluster[v].current_round < MaxRound
    /\ cluster[v].current_height < MaxHeight
    /\ cluster' = [cluster EXCEPT ![v] = poc_next_round(@, clock)]
    /\ call' = "next_round"
    /\ ret' = PC_OK
    /\ UNCHANGED <<corevars, clock, walvars, nodevars, daemonvars, pocvars,
                   shardvars, syncvars, peervars, ballots, decided,
                   stakevars>>

NextCluster ==
    \/ ClusterInit
    \/ \E v \in Honest, after \in Transitions : ClusterPropose(v, after)
    \/ \E v \in Honest : \E vote \in ballots \cup ByzantineVotes :
          ClusterReceiveVote(v, vote)
    \/ \E v \in Honest : ClusterFinalize(v)
    \/ \E v \in Honest : ClusterNextRound(v)

SpecCluster == Init /\ [][NextCluster]_vars

(***************************************************************************)
(* Votes that are not about the pending proposal                           *)
(***************************************************************************)
\* The proposals another validator may be voting on while c holds its own:
\* one with another new state, one of the next round and one of the next
\* height.
OtherProposals(c) ==
    {[c.current_proposal EXCEPT !.new_state_hash = PocAfter2.state_hash],
     [c.current_proposal EXCEPT !.round = @ + 1],
     [c.current_proposal EXCEPT !.sequence_num = @ + 1]}

\* The signed approvals of validators 2 and 3 of those proposals.
StrayVotes(c) ==
    {SignedVote([c EXCEPT !.current_proposal = p], k, k, POC_VOTE_APPROVE) :
        p \in OtherProposals(c), k \in {2, 3}}

\* poc_receive_vote(&consensus, &vote) of whatever vote arrives, a proposal
\* pending or not.
ReceiveAnyVote(vote) ==
    /\ PocReady
    /\ LET r == poc_receive_vote(poc, vote)
       IN  /\ poc' = r.c
           /\ ret' = r.err
    /\ call' = "receive_vote"
    /\ UNCHANGED <<corevars, clock, walvars, nodevars, daemonvars, poc_file,
                   finalized, received, replicas, delivered, extvars>>

NextStray ==
    \/ PocInit
    \/ \E k \in ValidatorKeys : AddValidator(k)
    \/ Operating /\ SetLocalValidator(1)
    \/ \E k \in ValidatorKeys :
          Operating /\ Propose(PocGenesis, PocAfter1, k)
    \/ \E vote \in ApprovalMessages(poc) \cup StrayVotes(poc) :
          Operating /\ ReceiveAnyVote(vote)
    \/ Operating /\ Finalize
    \/ Operating /\ NextRound

SpecStray == Init /\ [][NextStray]_vars

\* The after states a leader may hand to poc_propose_transition with the
\* genesis state as before: a transfer, the founder's wallet replaced by a
\* wallet of key 2 holding the whole supply, and a supply raised by one
\* coin that the founder holds.
ProposedAfters ==
    {PocAfter1,
     pc_state_compute_hash(
         [PocGenesis EXCEPT !.wallets = <<[public_key |-> 2,
                                           energy |-> PocGenesis.total_supply,
                                           nonce |-> 0]>>]),
     pc_state_compute_hash(
         [PocGenesis EXCEPT !.wallets[1].energy = @ + 1,
                            !.total_supply = @ + 1])}

NextPropose ==
    \/ PocInit
    \/ \E k \in ValidatorKeys : AddValidator(k)
    \/ Operating /\ SetLocalValidator(1)
    \/ \E after \in ProposedAfters, k \in ValidatorKeys :
          Operating /\ Propose(PocGenesis, after, k)
    \/ \E vote \in ApprovalMessages(poc) : Operating /\ ReceiveVote(vote)
    \/ Operating /\ Finalize
    \/ Operating /\ NextRound

SpecPropose == Init /\ [][NextPropose]_vars

(***************************************************************************)
(* A ledger whose holders stake                                            *)
(***************************************************************************)
\* The genesis supply of the staking ledger: twice the least stake that
\* the modelled doubles hold exactly.
StakeSupplies == {Pow2(11)}
\* Stakes: below MIN_STAKE, the least representable one above it, and more
\* than any wallet holds.
StakeAmounts == {Pow2(9), Pow2(10), Pow2(12)}
\* Percentages passed to validator_slash; 0 is refused.
SlashPercents == {0, 50, 100}

\* The slashes of every validator are below the cap of the model.
SlashesBelowCap ==
    \A i \in 1..Len(registry.validators) : registry.validators[i].slashes < MaxSlashes

\* validator_stake(&registry, &state, pubkey, amount)
Stake(pubkey, amount) ==
    /\ has_state
    /\ LET r == validator_stake(registry, state, pubkey, amount, clock)
       IN  /\ registry' = r.reg
           /\ state' = r.st
           /\ ret' = r.err
    /\ call' = "stake"
    /\ UNCHANGED <<has_state, genesis_supply, clock, walvars, nodevars, daemonvars,
                   pocvars, shardvars, syncvars, peervars, netvars>>

\* validator_unstake(&registry, pubkey)
Unstake(pubkey) ==
    /\ has_state
    /\ LET r == validator_unstake(registry, pubkey)
       IN  /\ registry' = r.reg
           /\ ret' = r.err
    /\ call' = "unstake"
    /\ UNCHANGED <<corevars, clock, walvars, nodevars, daemonvars, pocvars,
                   shardvars, syncvars, peervars, netvars>>

\* validator_withdraw(&registry, &state, pubkey)
Withdraw(pubkey) ==
    /\ has_state
    /\ LET r == validator_withdraw(registry, state, pubkey)
       IN  /\ registry' = r.reg
           /\ state' = r.st
           /\ ret' = r.err
    /\ call' = "withdraw"
    /\ UNCHANGED <<has_state, genesis_supply, clock, walvars, nodevars, daemonvars,
                   pocvars, shardvars, syncvars, peervars, netvars>>

\* validator_slash(&registry, &state, pubkey, slash_pct)
Slash(pubkey, slash_pct) ==
    /\ has_state
    /\ SlashesBelowCap
    /\ LET r == validator_slash(registry, state, pubkey, slash_pct)
       IN  /\ registry' = r.reg
           /\ state' = r.st
           /\ ret' = r.err
    /\ call' = "slash"
    /\ UNCHANGED <<has_state, genesis_supply, clock, walvars, nodevars, daemonvars,
                   pocvars, shardvars, syncvars, peervars, netvars>>

NextStake ==
    \/ \E supply \in StakeSupplies : Genesis(Founder, supply)
    \/ \E k \in KeyStore, amount \in StakeAmounts : Stake(k, amount)
    \/ \E k \in KeyStore : Unstake(k)
    \/ \E k \in KeyStore : Withdraw(k)
    \/ \E k \in KeyStore, pct \in SlashPercents : Slash(k, pct)
    \/ Tick

SpecStake == Init /\ [][NextStake]_vars

(***************************************************************************)
(* Claims about the state engine                                           *)
(***************************************************************************)
\* The exact (real-number) sum of the balances.
RECURSIVE SumEnergy(_)
SumEnergy(ws) ==
    IF ws = <<>> THEN 0
    ELSE ws[Len(ws)].energy + SumEnergy(SubSeq(ws, 1, Len(ws) - 1))

RecoverableErrors ==
    {PC_ERR_INSUFFICIENT_FUNDS, PC_ERR_INVALID_SIGNATURE,
     PC_ERR_INVALID_AMOUNT, PC_ERR_WALLET_NOT_FOUND}

\* C1: in every state reached from genesis(founder, S) by execute calls, the
\* sum of all balances differs from S by less than 1e-9 (on whole coins: it
\* equals S).
C1_Conservation ==
    has_state => ~ExceedsTolerance(SumEnergy(state.wallets) - genesis_supply)

\* C2: an execute that returns insufficient_funds, invalid_signature,
\* invalid_amount or account_not_found leaves the whole PCState as it was.
C2_FailedExecuteKeepsState ==
    [][(call' = "execute" /\ ret' \in RecoverableErrors) => state' = state]_vars

\* C3: execute succeeds only with tx.nonce equal to the sender's nonce, every
\* success raises that nonce by exactly one, and a transaction whose nonce is
\* not the sender's current one is rejected with invalid_signature.
C3_NonceMonotonic ==
    [][\A tx \in TxInputs :
         (Execute(tx) /\ pc_state_get_wallet(state, tx.from) # 0) =>
            /\ ret' = PC_OK =>
                  /\ tx.nonce = NonceOf(state, tx.from)
                  /\ NonceOf(state', tx.from) = NonceOf(state, tx.from) + 1
            /\ tx.nonce # NonceOf(state, tx.from) =>
                  ret' = PC_ERR_INVALID_SIGNATURE]_vars

\* C4: after every successful execute, prev_hash is the state_hash the
\* state had immediately before the call.
C4_HashChain ==
    [][(call' = "execute" /\ ret' = PC_OK) =>
          state'.prev_hash = state.state_hash]_vars

\* A successful execute on a state that already carried a state hash.
C4_Witness ==
    /\ call = "execute" /\ ret = PC_OK
    /\ state.prev_hash # ZeroHash
    /\ state.state_hash # state.prev_hash

\* C6: after genesis total_supply never changes (create_account with a
\* nonzero balance is refused), whatever create_account and execute calls
\* follow.
C6_SupplyFixed == has_state => state.total_supply = genesis_supply

(***************************************************************************)
(* Claims about two nodes                                                  *)
(***************************************************************************)
\* C5: two nodes that ran the same genesis and applied the same ordered list
\* of transactions hold the same state_hash, whatever the times at which
\* each of them ran genesis and each execute.
C5_Determinism ==
    (applied[1] # <<>> /\ applied[1] = applied[2]) =>
        nodes[1].state_hash = nodes[2].state_hash

(***************************************************************************)
(* Claims about the write-ahead log                                        *)
(***************************************************************************)
EntryTypes(entries) == [i \in 1..Len(entries) |-> entries[i].type]

\* The accounts of a state: keys, balances and nonces.
Accounts(st) == {st.wallets[i] : i \in 1..Len(st.wallets)}

\* The log holds a genesis entry followed by one or more transaction
\* entries, and every entry ever appended is in it.
GenesisThenTransactions ==
    /\ Len(wal_file.entries) >= 2
    /\ Len(wal_file.entries) = Len(appended)
    /\ wal_file.entries[1].type = WAL_ENTRY_GENESIS
    /\ \A i \in 2..Len(wal_file.entries) : wal_file.entries[i].type = WAL_ENTRY_TX

\* C7: after a run that logged genesis and K transactions and executed them,
\* recovery from the reopened WAL into a fresh state gives a state whose
\* state_hash is the final state_hash of that run.  (Checked where recovery
\* did rebuild the accounts and the supply of the run.)
C7_RecoveryHash ==
    (/\ call = "recover"
     /\ GenesisThenTransactions
     /\ Accounts(state) = Accounts(original)
     /\ state.total_supply = original.total_supply) =>
        state.state_hash = original.state_hash

\* The log the crash-recovery scenario writes: genesis, one transfer, a
\* checkpoint, three more transfers.
ScenarioLog ==
    <<WAL_ENTRY_GENESIS, WAL_ENTRY_TX, WAL_ENTRY_CHECKPOINT,
      WAL_ENTRY_TX, WAL_ENTRY_TX, WAL_ENTRY_TX>>

\* C8: after a logged genesis, a logged and executed transfer, a checkpoint,
\* three more logged and executed transfers and a crash with the WAL open,
\* recovery from the reopened WAL yields the accounts, balances, nonces and
\* total_supply that the four transfers executed in order on the genesis
\* state gave the node before the crash.
C8_CrashRecovery ==
    (call = "recover" /\ EntryTypes(wal_file.entries) = ScenarioLog) =>
        /\ Accounts(state) = Accounts(original)
        /\ state.total_supply = original.total_supply

\* Recovery has run on the scenario's log, the four transfers had all
\* succeeded before the crash, and time has passed since.
C8_Witness ==
    /\ call = "recover" /\ ret = PC_OK
    /\ EntryTypes(wal_file.entries) = ScenarioLog
    /\ checkpoint_file # NoFile
    /\ NonceOf(original, 1) + NonceOf(original, 2) = 4
    /\ Accounts(state) = Accounts(original)
    /\ state.state_hash # original.state_hash

\* C9: the sequence numbers of the entries appended to the WAL strictly
\* increase in append order, across init, appends, close, crash and reopen,
\* and truncate.
C9_SequenceIncreasing ==
    \A i \in 1..(Len(appended) - 1) : appended[i] < appended[i + 1]

\* C10: an append that returns success has its entry on stable storage.
C10_AppendDurable ==
    (call \in {"log_genesis", "log_tx", "checkpoint", "sync_marker"} /\ ret = PC_OK)
        => stable.entries = Len(wal_file.entries)

(***************************************************************************)
(* Claims about the daemon                                                 *)
(***************************************************************************)
\* A WAL entry of type TX for the transaction tx that stable storage holds.
LoggedAndSynced(tx) ==
    \E i \in 1..stable.entries :
        /\ wal_file.entries[i].type = WAL_ENTRY_TX
        /\ wal_file.entries[i].payload = tx

\* C11: every transaction the node has applied to its in-memory state has a
\* WAL entry that was appended and synced before the state was mutated.
C11_LoggedBeforeApplied ==
    \A i \in 1..Len(accepted) : LoggedAndSynced(accepted[i])

(***************************************************************************)
(* Claims about the consensus                                              *)
(***************************************************************************)
\* The approve votes in the tally of c.
Approvals(c) == CountVotes(c, POC_VOTE_APPROVE)

\* Every vote in the tally of c approves.
OnlyApprovals(c) == Approvals(c) = Len(c.votes)

\* C12: check_quorum reports approved only when the approve votes are at
\* least ceil(active_count * 2/3), that is 3 of 4 active validators.
C12_QuorumTwoThirds ==
    poc_check_quorum(poc) = 1
        => 3 * Approvals(poc) >= 2 * poc_active_validator_count(poc)

VotesOf(c, k) == SelectSeq(c.votes, LAMBDA v : v.validator_pubkey = k)

\* C14: a call of poc_vote or poc_receive_vote leaves every validator with
\* at most one vote in the tally and leaves the vote of a validator that
\* has already voted as it was; a vote dropped as a duplicate changes
\* neither the tally nor the result of check_quorum.
C14_VoteCountedOnce ==
    [][call' \in {"vote", "receive_vote"}
        => /\ \A k \in ValidatorKeys \cup {Outsider} :
                /\ Len(VotesOf(poc', k)) <= 1
                /\ AlreadyVoted(poc, k) => VotesOf(poc', k) = VotesOf(poc, k)
           /\ ret' = PC_ERR_WALLET_EXISTS
                => /\ poc'.votes = poc.votes
                   /\ poc_check_quorum(poc') = poc_check_quorum(poc)]_vars

C14_Witness ==
    /\ call = "receive_vote"
    /\ ret = PC_ERR_WALLET_EXISTS
    /\ Len(poc.votes) >= 2
    /\ poc_check_quorum(poc) = 1

\* C15: a vote enters the tally, cast by poc_vote or received by
\* poc_receive_vote, only if its signer is an active registered validator
\* at that moment.
C15_VotesByActiveValidators ==
    [][(\/ Len(poc'.votes) > Len(poc.votes)
        \/ (call' = "propose" /\ ret' = PC_OK /\ poc'.votes # <<>>))
        => poc_is_validator(poc, poc'.votes[Len(poc'.votes)].validator_pubkey)]_vars

\* C17: every successful poc_finalize strictly increases current_height,
\* and the sequence numbers of the finalized proposals strictly increase.
C17_HeightIncreases ==
    [][(call' = "finalize" /\ ret' = PC_OK)
        => /\ poc'.current_height > poc.current_height
           /\ \A i \in 1..(Len(finalized') - 1) :
                finalized'[i].sequence_num < finalized'[i + 1].sequence_num]_vars

C17_Witness ==
    /\ call = "finalize"
    /\ ret = PC_OK
    /\ Len(finalized) = 2
    /\ poc.current_height = 2

\* C18: a proposal created after a finalization has prev_state_hash equal to
\* the new_state_hash of the most recently finalized proposal.
C18_ProposalLinksToFinalized ==
    (poc.has_proposal /\ finalized # <<>>)
        => poc.current_proposal.prev_state_hash
               = finalized[Len(finalized)].new_state_hash

\* The public key of the current leader, 0 when there is none.
Leader(c) ==
    IF poc_get_current_leader(c) = 0 THEN 0
    ELSE c.validators[poc_get_current_leader(c)].pubkey

VoteBag(votes) ==
    [v \in {votes[i] : i \in DOMAIN votes} |->
        Cardinality({i \in DOMAIN votes : votes[i] = v})]

\* The tally of a consensus: the approvals, rejections and abstentions.
Tally(c) ==
    <<CountVotes(c, POC_VOTE_APPROVE), CountVotes(c, POC_VOTE_REJECT),
      CountVotes(c, POC_VOTE_ABSTAIN)>>

\* C16: for one pending proposal, two runs that were delivered the same
\* multiset of signed vote messages, in whatever order, hold the same tally
\* and return the same poc_check_quorum.
C16_TallyOrderIndependent ==
    \A r1, r2 \in Replicas :
        (/\ replicas[r1].has_proposal
         /\ replicas[r2].has_proposal
         /\ VoteBag(delivered[r1]) = VoteBag(delivered[r2]))
        => /\ Tally(replicas[r1]) = Tally(replicas[r2])
           /\ poc_check_quorum(replicas[r1]) = poc_check_quorum(replicas[r2])

\* The double a is within 1e-12 of the double b.
WithinTolerance(a, b) ==
    /\ ~a.nan
    /\ ~b.nan
    /\ ~ExceedsTolerance(FSub(a.value, b.value))

\* The six conditions of a valid proposal.
ValidProposal(c, p, cs) ==
    /\ \E i \in 1..Len(c.validators) :
          c.validators[i].pubkey = p.proposer_pubkey /\ c.validators[i].active
    /\ p.sequence_num = c.current_height + 1
    /\ p.prev_state_hash = cs.state_hash
    /\ WithinTolerance(p.total_supply, Double(cs.total_supply))
    /\ WithinTolerance(p.delta_sum, Double(0))
    /\ Ed25519Verify(p.proposer_sig, poc_hash_proposal(p), p.proposer_pubkey)

\* C20: poc_validate_proposal accepts a proposal if and only if the proposer
\* is an active registered validator, sequence_num is current_height + 1,
\* prev_state_hash is the current state's state_hash, total_supply is the
\* current state's within 1e-12, delta_sum is zero within 1e-12 and the
\* proposer's signature over the proposal hash verifies.
C20_ValidateProposalIff ==
    call = "validate_proposal" =>
        (ret = PC_OK <=>
            ValidProposal(poc, received.proposal, received.current_state))

(***************************************************************************)
(* Claims about the sharded network and the cross-shard locks              *)
(***************************************************************************)
\* The energy of pubkey's wallet in its shard, 0 when it has none.
ShardBalance(n, pubkey) ==
    LET Of(st) == IF pc_state_get_wallet(st, pubkey) = 0 THEN 0
                  ELSE st.wallets[pc_state_get_wallet(st, pubkey)].energy
    IN  Of(n.shards[get_shard_for_wallet(pubkey)].local_state)

RECURSIVE ExactSupplySum(_, _)
\* The sum of the total_supply of shards 0..k-1, as a real number.
ExactSupplySum(n, k) ==
    IF k = 0 THEN 0
    ELSE ExactSupplySum(n, k - 1) + n.shards[k - 1].local_state.total_supply

\* The step is a cross-shard transfer that completed.
CrossTxCompleted == call' = "cross_tx" /\ ret' = PC_OK /\ network' # network

\* C21: a completed cross-shard transfer of amount a debits the sender by a,
\* credits the receiver by a and leaves the sum of the shards' total_supply
\* unchanged, so that the sum still is the network's total_supply if it was
\* before.
C21_CrossShardConserves ==
    [][CrossTxCompleted =>
          /\ ShardBalance(network', shard_tx'.from)
                 = ShardBalance(network, shard_tx'.from) - shard_tx'.amount
          /\ ShardBalance(network', shard_tx'.to)
                 = ShardBalance(network, shard_tx'.to) + shard_tx'.amount
          /\ ExactSupplySum(network', NUM_SHARDS)
                 = ExactSupplySum(network, NUM_SHARDS)
          /\ (pc_sharding_verify_conservation(network) = PC_OK
                 => pc_sharding_verify_conservation(network') = PC_OK)]_vars

\* The source shard of the transfer tx.
SourceShard(n, tx) == n.shards[get_shard_for_wallet(tx.from)]

\* C22: a cross-shard transfer whose phase 2 cannot complete ends with
\* phase 1 reversed (the source shard as it was) or with a lock held for the
\* sender, never with phase 1 applied, phase 2 not applied and no lock.
C22_FailedPhase2Compensated ==
    [][(call' = "cross_tx" /\ ret' # PC_OK) =>
          \/ SourceShard(network', shard_tx').local_state
                 = SourceShard(network, shard_tx').local_state
          \/ poc_has_pending_lock(poc', shard_tx'.from, clock') = 1]_vars

\* The step applies a transfer in a shard.
TransferApplied ==
    /\ call' \in {"intra_tx", "cross_tx"}
    /\ ret' = PC_OK
    /\ network' # network

\* C23: while a sender holds an unexpired cross-shard lock no shard applies
\* another transfer, intra-shard or cross-shard, from that sender.
C23_LockedSenderFrozen ==
    [][TransferApplied =>
          poc_has_pending_lock(poc, shard_tx'.from, clock) = 0]_vars

\* The unexpired locks of sender in the lock table.
UnexpiredLocks(c, sender, now) ==
    {i \in 1..Len(c.pending_locks) :
        /\ c.pending_locks[i].sender_pubkey = sender
        /\ c.pending_locks[i].expiry > now}

\* C29: the lock table holds at most one unexpired lock per sender, and
\* poc_acquire_lock for a sender who holds an unexpired lock fails with
\* PC_ERR_WALLET_EXISTS and leaves the table as it is.
C29_OneLockPerSender ==
    \A sender \in KeyStore :
        /\ Cardinality(UnexpiredLocks(poc, sender, clock)) <= 1
        /\ UnexpiredLocks(poc, sender, clock) # {} =>
              \A amount \in {1, 2}, target \in Keys :
                  poc_acquire_lock(poc, sender, amount,
                                   get_shard_for_wallet(sender),
                                   get_shard_for_wallet(target), clock)
                      = [c |-> poc, err |-> PC_ERR_WALLET_EXISTS]

\* A second lock was refused to a sender whose expired lock is still in the
\* table beside its unexpired one.
C29_Witness ==
    /\ call = "acquire_lock"
    /\ ret = PC_ERR_WALLET_EXISTS
    /\ \E sender \in KeyStore :
          /\ UnexpiredLocks(poc, sender, clock) # {}
          /\ \E i \in 1..Len(poc.pending_locks) :
                /\ poc.pending_locks[i].sender_pubkey = sender
                /\ poc.pending_locks[i].expiry <= clock

(***************************************************************************)
(* Claims about the deltas                                                 *)
(***************************************************************************)
\* C24: for a state s1 of the ledger (the client's) and a state s2 reached
\* from it by one or more transfers and account creations (the ledger's),
\* applying compute_delta(s1, s2) to s1 succeeds and yields a state whose
\* serialization is that of s2.
C24_DeltaRoundTrip ==
    [][(/\ call' = "delta_apply"
        /\ ~client_failed
        /\ client # state
        /\ delta_msg' = pc_delta_compute(client, state)) =>
          /\ ret' = PC_OK
          /\ pc_state_serialize(client') = pc_state_serialize(state)]_vars

\* C25: a pc_delta_apply that fails at any of its checks leaves the
\* receiver's state exactly as it was before the call.
C25_FailedDeltaLeavesState ==
    [][(call' = "delta_apply" /\ ret' # PC_OK) => client' = client]_vars

(***************************************************************************)
(* Claims about recovery from a damaged log                                *)
(***************************************************************************)
\* The entries of a log whose payload still has the checksum of its header.
RECURSIVE IntactEntries(_)
IntactEntries(entries) ==
    IF entries = <<>> THEN <<>>
    ELSE IF PayloadIntact(Head(entries))
         THEN <<Head(entries)>> \o IntactEntries(Tail(entries))
         ELSE IntactEntries(Tail(entries))

\* C28: recovery neither applies an entry whose payload checksum does not
\* match nor stops at it: the state it produces is the state recovery
\* produces from the same log with those entries taken out, so every later
\* intact entry is read and processed as it would be without them.
C28_CorruptEntrySkipped ==
    [][Recover =>
         state' = pc_wal_recover(wal, [wal_file EXCEPT
                                          !.entries = IntactEntries(@)],
                                 checkpoint_file, state, clock).st]_vars

\* Recovery has run on a log with a damaged entry followed by an intact
\* transfer, and that transfer took effect.
C28_Witness ==
    /\ call = "recover" /\ ret = PC_OK
    /\ \E i \in 1..Len(wal_file.entries), j \in 1..Len(wal_file.entries) :
          /\ i < j
          /\ wal_file.entries[i].type = WAL_ENTRY_TX
          /\ ~PayloadIntact(wal_file.entries[i])
          /\ wal_file.entries[j].type = WAL_ENTRY_TX
          /\ PayloadIntact(wal_file.entries[j])
          /\ pc_state_get_wallet(state, wal_file.entries[j].payload.from) # 0
          /\ NonceOf(state, wal_file.entries[j].payload.from)
                = wal_file.entries[j].payload.nonce + 1
(***************************************************************************)
(* Claims about the daemon's peers                                         *)
(***************************************************************************)
\* The header h names a key of the node's trusted-validator list and its
\* signature verifies against that key, over the hash of the state st.
TrustedSignature(h, st) ==
    /\ is_trusted_validator(trusted_validators, h.validator_pubkey) = 1
    /\ verify_state_signature(h, st) = 1

\* C26: a node replaces its state with a full state received from a peer
\* only if a snapshot header that came with it carries a signature that
\* verifies against a public key of the node's trusted-validator list.
C26_StateNeedsTrustedSignature ==
    [][\A msg \in SyncMessages(state) :
          (msg.type = MSG_STATE /\ Receive(msg) /\ state' # state)
              => \E h \in sig_headers : TrustedSignature(h, state')]_vars

\* The ban of p has not expired at the time now.
BanInForce(p, now) ==
    p.banned = 1 /\ (p.ban_until = 0 \/ now < p.ban_until)

\* C27: a peer that has accumulated five violations is banned, for one
\* hour, or for ever when the ban comes from an unknown message type, and
\* no message of a peer with five violations or with a ban in force is
\* processed.
C27_FiveViolationsBan ==
    [][\A msg \in PeerMessages :
          Receive(msg) =>
              /\ peer'.violations >= MAX_VIOLATIONS => peer'.banned = 1
              /\ (peer.banned = 0 /\ peer'.banned = 1) =>
                     peer'.ban_until = IF msg.type = MSG_DELTA THEN 0
                                       ELSE clock + BAN_DURATION
              /\ (peer.violations >= MAX_VIOLATIONS \/ BanInForce(peer, clock))
                     => (~handled' /\ state' = state)]_vars
(***************************************************************************)
(* Claims about a network of validators                                    *)
(***************************************************************************)
\* C30: with four validators of which one is Byzantine, no two honest
\* validators finalize proposals with different new_state_hash at the same
\* height.
C30_Agreement ==
    \A v \in Honest, w \in Honest :
        \A i \in 1..Len(decided[v]), j \in 1..Len(decided[w]) :
            decided[v][i].sequence_num = decided[w][j].sequence_num
                => decided[v][i].new_state_hash = decided[w][j].new_state_hash
(***************************************************************************)
(* Claims about stray votes                                                *)
(***************************************************************************)
\* The vote is about the proposal pending at c.
AboutCurrentProposal(c, vote) ==
    /\ vote.proposal_hash = poc_hash_proposal(c.current_proposal)
    /\ vote.sequence_num = c.current_proposal.sequence_num
    /\ vote.round = c.current_proposal.round

\* C31: the votes that poc_check_quorum counts are votes about the pending
\* proposal: none of them names another proposal hash, sequence number or
\* round, and none was received while no proposal was pending.
C31_OnlyVotesOnPendingCount ==
    poc.has_proposal =>
        \A i \in 1..Len(poc.votes) : AboutCurrentProposal(poc, poc.votes[i])
(***************************************************************************)
(* Claims about the validity of cross-shard transfers                      *)
(***************************************************************************)
\* tx is valid on the sharded network n in the sense of execute: signed by
\* its sender, with the sender's current nonce, a positive amount and a
\* sufficient balance.
ValidOnShards(n, tx) ==
    /\ pc_transaction_verify(tx) = PC_OK
    /\ tx.nonce = ShardNonce(n, tx.from)
    /\ tx.amount > 0
    /\ ShardBalance(n, tx.from) >= tx.amount

\* C32: a cross-shard transfer is applied only if the transaction is valid
\* in the sense of execute, so that a signed transaction is not applied
\* twice.
C32_CrossTxValid ==
    [][(call' = "cross_tx" /\ ret' = PC_OK /\ network' # network)
          => ValidOnShards(network, shard_tx')]_vars
(***************************************************************************)
(* Claims about the validator set during a vote                            *)
(***************************************************************************)
\* C33: while a proposal is pending, poc_add_validator and
\* poc_remove_validator are refused and leave the validator set, and with
\* it active_count and the quorum threshold, as they were.
C33_ValidatorSetFixedWhilePending ==
    [][(poc.has_proposal /\ call' \in {"add_validator", "remove_validator"})
          => /\ ret' # PC_OK
             /\ poc'.validators = poc.validators
             /\ QuorumRequired(poc_active_validator_count(poc'))
                   = QuorumRequired(poc_active_validator_count(poc))]_vars
(***************************************************************************)
(* Claims about the delta sum of a proposal                                *)
(***************************************************************************)
\* C34: a proposal is pending only if its delta_sum, the sum over after's
\* accounts of the balance minus the balance of the same account in before,
\* is zero.
C34_PendingProposalHasZeroDelta ==
    poc.has_proposal => ~FabsExceeds(poc.current_proposal.delta_sum)
(***************************************************************************)
(* Claims about recovery after a truncation                                *)
(***************************************************************************)
\* The log was truncated after the checkpoint and holds only the
\* transactions logged since.
TruncatedLog ==
    /\ checkpoint_file # NoFile
    /\ wal_file.entries # <<>>
    /\ \A i \in 1..Len(wal_file.entries) : wal_file.entries[i].type = WAL_ENTRY_TX

\* C35: after a checkpoint followed by pc_wal_truncate, recovery re-applies
\* every transaction logged and executed since on top of the checkpoint
\* state, the first one included: the recovered wallets are those the node
\* had when it stopped.
C35_RecoveryAfterTruncate ==
    [][(Recover /\ TruncatedLog) => state'.wallets = original.wallets]_vars
(***************************************************************************)
(* Claims about the state hash and the version                             *)
(***************************************************************************)
\* C36: between operations state_hash is the SHA-256 commitment of the
\* current contents of the state: after genesis, after create_wallet, and
\* after an execute that succeeded or failed.
C36_HashCommitsToContents ==
    has_state => state.state_hash = HashInput(state)
\* C37: every successful state transition strictly increases state.version.
C37_VersionIncreases ==
    [][(call' = "execute" /\ ret' = PC_OK) => state'.version > state.version]_vars
(***************************************************************************)
(* Claims about the lock table                                             *)
(***************************************************************************)
\* C38: a lock whose expiry has passed no longer occupies an entry of the
\* lock table: when poc_acquire_lock has added a lock, every entry of
\* pending_locks is unexpired.
C38_ExpiredLocksLeaveTable ==
    [][(call' = "acquire_lock" /\ ret' = PC_OK /\ poc' # poc)
          => \A i \in 1..Len(poc'.pending_locks) :
                poc'.pending_locks[i].expiry > clock']_vars
(***************************************************************************)
(* Claims about staking                                                    *)
(***************************************************************************)
\* C39: after any sequence of validator_stake, validator_unstake,
\* validator_withdraw and validator_slash on a ledger that satisfied
\* conservation, the sum of the balances still equals total_supply.
C39_StakingConserves ==
    has_state => pc_state_verify_conservation(state) = PC_OK
(***************************************************************************)
(* Claims about the phase                                                  *)
(***************************************************************************)
\* The phase the phase table gives a consensus: idle without a pending
\* proposal, commit once the approvals reach the quorum, prepare once a
\* vote of a validator other than the proposer is in, pre_prepare before.
TablePhase(c) ==
    IF ~c.has_proposal THEN POC_PHASE_IDLE
    ELSE IF poc_check_quorum(c) = 1 THEN POC_PHASE_COMMIT
    ELSE IF \E i \in 1..Len(c.votes) :
               c.votes[i].validator_pubkey # c.current_proposal.proposer_pubkey
    THEN POC_PHASE_PREPARE
    ELSE POC_PHASE_PRE_PREPARE

\* C40: the phase follows the phase table: pre_prepare from the leader's
\* propose, its own approval included, until the first vote of another
\* validator is received, prepare until the approvals reach the quorum,
\* commit until finalize is called, idle once finalize has completed.
C40_PhaseFollowsTable ==
    poc.phase = TablePhase(poc)
=============================================================================
